---- MODULE Spec2Model ----
(***************************************************************************)
(* bAUTO: the instruction-to-action pipeline.                              *)
(*                                                                         *)
(*   InstructionParser  (src/bauto/core/parser.py)                         *)
(*   CodeGenerator      (src/bauto/core/code_generator.py)                 *)
(*   ActionEngine       (src/bauto/engine/action_engine.py)                *)
(*   BrowserAutomator   (src/bauto/core/automator.py)                      *)
(*                                                                         *)
(* Text is a sequence of atoms.  The three parser keywords, the comment    *)
(* marker, the blank, the line break and the key separator are one atom    *)
(* each; every other atom stands for a run of ordinary characters that    *)
(* does not begin with a keyword or the comment marker.                    *)
(*                                                                         *)
(* Specifications:                                                         *)
(*   Spec        one BrowserAutomator driven through successive run calls  *)
(*   SpecParser  one InstructionParser driven through parse and clear      *)
(*   SpecGenerator  one CodeGenerator and its provider                     *)
(*   SpecClean   CodeGenerator._clean_code applied to one response         *)
(*   SpecEngine  one ActionEngine driven through execute                   *)
(*   SpecProvider  one GeminiProvider driven through generate_with_retry   *)
(***************************************************************************)
EXTENDS Naturals, Integers, Sequences, FiniteSets, TLC

VARIABLES
    \* ---- InstructionParser (self.parser) ----
    functions,        \* parser.functions: macro name -> body
    action_queue,     \* parser.action_queue
    \* ---- history of the parser calls (SpecParser) ----
    p_op,             \* last parser operation: "none", "parse", "clear"
    p_input,          \* argument of the last parse call
    p_fresh,          \* the parser was freshly constructed before that call
    p_ret,            \* value returned by the last parse call
    p_calls,          \* number of parser operations so far
    \* ---- BrowserAutomator configuration ----
    retry_attempts,   \* config.automation.retry_attempts
    cache_enabled,    \* config.automation.cache_prompts
    \* ---- BrowserAutomator fields ----
    driver,           \* self.driver: 0 is None, n > 0 the browser run n created
    env,              \* self.env:    0 is None
    engine,           \* self.engine: [env, execution_count], env = 0 is None
    code_cache,       \* code_generator._code_cache: key -> snippet
    \* ---- frame of the run call in progress ----
    pc,               \* position inside run / _execute_action
    instructions,     \* argument of run
    close_browser,    \* argument of run
    i,                \* enumerate index of the for loop (1-based)
    all_success,      \* local of run
    attempt,          \* loop variable of _execute_action
    last_error,       \* local of _execute_action
    code,             \* local of _execute_action
    success,          \* value returned by _execute_action
    exc,              \* fault in flight: "none", "Exception", "BaseException"
    retval,           \* outcome of the last finished run
    \* ---- observation of the calls made (history) ----
    runs,             \* number of run calls started
    gen_calls,        \* generate calls made for the current instruction
    exec_calls,       \* execute calls made for the current instruction
    n_ok,             \* instructions of this run that returned True
    n_failed,         \* instructions of this run that returned False
    gen_faulted,      \* the current instruction's generate call raised
    succeeded,        \* an execute call of the current instruction succeeded
    last_gen,         \* arguments of the latest generate call
    last_exec,        \* latest execute call and what it returned
    delays,           \* queue positions after which action_delay was slept
    create_calls,     \* create_browser calls made by the current run
    quits,            \* driver.quit calls made by the current run
    prev_closed,      \* the run before the current one went through _cleanup
    quit_swallowed,   \* the latest quit raised and _cleanup went on
    created_in_run,   \* create_browser returned during the current run
    \* ---- CodeGenerator with its provider (SpecGenerator) ----
    ai_cache,         \* provider._cache: prompt -> response text
    g_op,             \* last call: "none", "generate", "clear_cache", "ai_clear"
    g_call,           \* the latest generate call and what came of it
    g_stats,          \* per input tuple, the calls made since the last clear_cache
    ai_stats,         \* per input tuple, the calls that reached the provider
                      \* since the provider's last clear_cache
    g_ops,            \* number of generator calls so far
    \* ---- CodeGenerator._clean_code (SpecClean) ----
    c_raw,            \* the text _clean_code is given
    c_out,            \* the text it returns
    c_done,           \* _clean_code has returned
    \* ---- one ActionEngine on its own (SpecEngine) ----
    screenshot_on_error,  \* engine.screenshot_on_error
    e_calls,          \* execute calls made
    e_in,             \* what the snippet of the latest call does
    e_out,            \* how the latest call ended
    e_shots,          \* execution numbers a screenshot was saved for
    e_builtins,       \* names snippets have added to the interpreter's builtins
    \* ---- GeminiProvider.generate_with_retry (SpecProvider) ----
    retry_frame,      \* the generate_with_retry call in progress, or the last
    retry_calls,      \* generate_with_retry calls started
    \* ---- InstructionParser.group_related_actions (SpecGroup) ----
    gr_list,          \* the list object passed as actions
    gr_shared,        \* that list is the parser's own action_queue
    gr_in,            \* what the list held when the call was made
    gr_out,           \* the list the call returned
    gr_done           \* the call has returned

parserVars == <<functions, action_queue>>
parserHist == <<p_op, p_input, p_fresh, p_ret, p_calls>>
configVars == <<retry_attempts, cache_enabled>>
fieldVars  == <<driver, env, engine, code_cache>>
frameVars  == <<pc, instructions, close_browser, i, all_success, attempt,
                last_error, code, success, exc, retval>>
histVars   == <<runs, gen_calls, exec_calls, n_ok, n_failed, gen_faulted,
                succeeded, last_gen, last_exec, delays, create_calls,
                quits, prev_closed, quit_swallowed, created_in_run>>
genVars    == <<ai_cache, g_op, g_call, g_stats, ai_stats, g_ops>>
cleanVars  == <<c_raw, c_out, c_done>>
engVars    == <<screenshot_on_error, e_calls, e_in, e_out, e_shots,
                e_builtins>>
retryVars  == <<retry_frame, retry_calls>>
groupVars  == <<gr_list, gr_shared, gr_in, gr_out, gr_done>>
unitVars   == <<genVars, cleanVars, engVars, retryVars, groupVars>>
vars == <<parserVars, parserHist, configVars, fieldVars, frameVars, histVars,
          unitVars>>

(***************************************************************************)
(* Bounds                                                                  *)
(***************************************************************************)
MaxLines     == 4   \* lines of one parser input (SpecParser)
MaxShort     == 2   \* lines of the first input of a parser that is used again
MaxParserOps == 3   \* parser operations in one behaviour (SpecParser)
MaxRetry     == 3   \* largest retry_attempts explored
MaxRuns      == 2   \* run calls in one behaviour
MaxGenOps    == 3   \* generator and provider calls in one behaviour (SpecGenerator)
MaxCodeLines == 3   \* lines of a response given to _clean_code (SpecClean)
MaxExec      == 4   \* execute calls in one behaviour (SpecEngine)
MaxTries     == 3   \* largest max_retries explored (SpecProvider)
MaxRetryCalls == 2  \* generate_with_retry calls in one behaviour (SpecProvider)
MaxActions   == 3   \* instructions given to group_related_actions (SpecGroup)

(***************************************************************************)
(* Text                                                                    *)
(***************************************************************************)
FUNCTION_START == "DEFINE_FUNCTION"
FUNCTION_END   == "END_FUNCTION"
CALL_FUNCTION  == "CALL"
COMMENT        == "#"
NL             == "\n"
WS             == {" ", NL}

\* Optional[str]: Python's None and a text are different values
NoneV   == [some |-> FALSE, s |-> <<>>]
Some(s) == [some |-> TRUE, s |-> s]
\* how an f-string renders an Optional[str]
fstr(v) == IF v.some THEN v.s ELSE <<"None">>

RECURSIVE lstrip(_)
lstrip(s) == IF s # <<>> /\ Head(s) \in WS THEN lstrip(Tail(s)) ELSE s

RECURSIVE rstrip(_)
rstrip(s) ==
    IF s # <<>> /\ s[Len(s)] \in WS THEN rstrip(SubSeq(s, 1, Len(s) - 1)) ELSE s

\* variant: only the left side is trimmed
strip_LeftOnly(s) == lstrip(s)

\* str.strip()
strip(s) == rstrip(lstrip(s))

\* str.startswith(marker), marker being one atom
startswith(s, marker) == s # <<>> /\ Head(s) = marker

RECURSIVE SplitFrom(_, _)
SplitFrom(s, cur) ==
    IF s = <<>> THEN <<cur>>
    ELSE IF Head(s) = NL THEN <<cur>> \o SplitFrom(Tail(s), <<>>)
    ELSE SplitFrom(Tail(s), Append(cur, Head(s)))

\* str.split("\n")
split_nl(s) == SplitFrom(s, <<>>)

RECURSIVE LastWordFrom(_, _)
LastWordFrom(s, k) ==
    IF k = 0 \/ s[k] \in WS THEN SubSeq(s, k + 1, Len(s))
    ELSE LastWordFrom(s, k - 1)

\* line.split()[-1] of a line that has at least one word
last_word(s) == LET t == rstrip(s) IN LastWordFrom(t, Len(t))

RECURSIVE Join(_)
\* "\n".join(lines)
Join(lines) ==
    IF lines = <<>> THEN <<>>
    ELSE IF Len(lines) = 1 THEN lines[1]
    ELSE lines[1] \o <<NL>> \o Join(Tail(lines))

\* variant: a key that is present keeps its value
Put_KeepFirst(d, k, v) ==
    [x \in DOMAIN d \cup {k} |-> IF x \in DOMAIN d THEN d[x] ELSE v]

\* dict assignment d[k] = v
Put(d, k, v) == [x \in DOMAIN d \cup {k} |-> IF x = k THEN v ELSE d[x]]

(***************************************************************************)
(* InstructionParser                                                       *)
(***************************************************************************)
\* variant: comment lines are not skipped
IsSkipped_BlankOnly(line) == line = <<>>

\* "if not line or line.startswith('#')"
IsSkipped(line) == line = <<>> \/ startswith(line, COMMENT)

\* variant: a start marker ends the body as well
EndsBody_AnyMarker(line) ==
    startswith(line, FUNCTION_END) \/ startswith(line, FUNCTION_START)

\* "if line.startswith(self.FUNCTION_END): break"
EndsBody(line) == startswith(line, FUNCTION_END)

RECURSIVE CollectBody(_, _, _)
\* inner while loop of _extract_functions; k is where it stopped
CollectBody(lines, k, body) ==
    IF k > Len(lines) THEN [body |-> body, k |-> k]
    ELSE LET line == strip(lines[k]) IN
         IF EndsBody(line) THEN [body |-> body, k |-> k]
         ELSE CollectBody(lines, k + 1,
                          IF ~IsSkipped(line) THEN Append(body, line) ELSE body)

RECURSIVE ExtractFrom(_, _, _)
ExtractFrom(lines, k, fns) ==
    IF k > Len(lines) THEN fns
    ELSE LET line == strip(lines[k]) IN
         IF IsSkipped(line) THEN ExtractFrom(lines, k + 1, fns)
         ELSE IF startswith(line, FUNCTION_START)
              THEN LET r == CollectBody(lines, k + 1, <<>>) IN
                   ExtractFrom(lines, r.k + 1, Put(fns, last_word(line), r.body))
              ELSE ExtractFrom(lines, k + 1, fns)

_extract_functions(lines, fns) == ExtractFrom(lines, 1, fns)

\* variant: a call of an unknown name is queued like a regular instruction
QueueStep_CallKept(line, fns) ==
    IF IsSkipped(line) THEN <<>>
    ELSE IF startswith(line, FUNCTION_START) \/ startswith(line, FUNCTION_END)
         THEN <<>>
    ELSE IF startswith(line, CALL_FUNCTION)
         THEN IF last_word(line) \in DOMAIN fns THEN fns[last_word(line)]
              ELSE <<line>>
    ELSE <<line>>

RECURSIVE Expanded(_, _)
\* a body with the known calls among its lines replaced by their bodies
Expanded(body, fns) ==
    IF body = <<>> THEN <<>>
    ELSE (IF startswith(Head(body), CALL_FUNCTION)
             /\ last_word(Head(body)) \in DOMAIN fns
          THEN fns[last_word(Head(body))]
          ELSE <<Head(body)>>)
         \o Expanded(Tail(body), fns)

\* variant: the calls inside a called body are expanded as well
QueueStep_Nested(line, fns) ==
    IF IsSkipped(line) THEN <<>>
    ELSE IF startswith(line, FUNCTION_START) \/ startswith(line, FUNCTION_END)
         THEN <<>>
    ELSE IF startswith(line, CALL_FUNCTION)
         THEN IF last_word(line) \in DOMAIN fns
              THEN Expanded(fns[last_word(line)], fns)
              ELSE <<>>
    ELSE <<line>>

\* what one line of the second pass appends to the queue
QueueStep(line, fns) ==
    IF IsSkipped(line) THEN <<>>
    ELSE IF startswith(line, FUNCTION_START) \/ startswith(line, FUNCTION_END)
         THEN <<>>
    ELSE IF startswith(line, CALL_FUNCTION)
         THEN IF last_word(line) \in DOMAIN fns THEN fns[last_word(line)] ELSE <<>>
    ELSE <<line>>

RECURSIVE BuildFrom(_, _, _, _)
BuildFrom(lines, k, fns, queue) ==
    IF k > Len(lines) THEN queue
    ELSE BuildFrom(lines, k + 1, fns, queue \o QueueStep(strip(lines[k]), fns))

_build_action_queue(lines, fns, queue) == BuildFrom(lines, 1, fns, queue)

\* the argument of parse: a text block, a list of lines, or no value at all
TextInput(lines) == [kind |-> "str",  val |-> Join(lines)]
ListInput(lines) == [kind |-> "list", val |-> lines]
NoInput          == [kind |-> "none", val |-> <<>>]

InputLines(inp) ==
    IF inp.kind = "str" THEN split_nl(strip(inp.val)) ELSE inp.val

\* parse raises on a value that is neither text nor a list (len(None))
ParseFaults(inp) == inp.kind = "none"

\* parse: the parser state after the call; the queue is also the return value
parse(inp, fns, queue) ==
    LET lines == InputLines(inp)
        fns2  == _extract_functions(lines, fns)
    IN [functions |-> fns2,
        action_queue |-> _build_action_queue(lines, fns2, queue)]

EmptyDict == [x \in {} |-> <<>>]


(***************************************************************************)
(* SpecParser: one InstructionParser, its parse and clear calls            *)
(***************************************************************************)
\* the lines inputs are made of
LinePool ==
    { <<"a">>,                              \* a plain instruction
      <<" ", "b", COMMENT, " ">>,           \* plain, padded, a marker inside
      <<" ", COMMENT, "a">>,                \* a comment line
      <<" ">>,                              \* a blank line
      <<FUNCTION_START, " ", "f">>,
      <<FUNCTION_END>>,
      <<CALL_FUNCTION, " ", "f">>,
      <<CALL_FUNCTION, " ", "g">> }

SeqsUpTo(S, n) == UNION { [1..k -> S] : k \in 0..n }

\* inputs a parser that was used before is given
FollowUps ==
    { ListInput(<<<<CALL_FUNCTION, " ", "f">>>>),
      ListInput(<<<<"a">>>>),
      TextInput(<<<<FUNCTION_START, " ", "f">>, <<"b">>>>) }

NoFrame ==
    /\ pc = "idle" /\ instructions = NoInput /\ close_browser = FALSE
    /\ i = 0 /\ all_success = TRUE /\ attempt = 0 /\ last_error = NoneV
    /\ code = <<>> /\ success = FALSE /\ exc = "none" /\ retval = "none"

NoHistory ==
    /\ runs = 0 /\ gen_calls = 0 /\ exec_calls = 0 /\ n_ok = 0 /\ n_failed = 0
    /\ gen_faulted = FALSE /\ succeeded = FALSE
    /\ last_gen = [made |-> FALSE] /\ last_exec = [made |-> FALSE]
    /\ delays = {} /\ create_calls = 0 /\ quits = 0 /\ prev_closed = FALSE
    /\ quit_swallowed = FALSE /\ created_in_run = FALSE

\* no generator, post-processing or engine call of its own has been made
NoGenerator ==
    /\ ai_cache = EmptyDict /\ g_op = "none" /\ g_call = [made |-> FALSE]
    /\ g_stats = EmptyDict /\ ai_stats = EmptyDict /\ g_ops = 0

NoClean == c_raw = <<>> /\ c_out = <<>> /\ c_done = FALSE

NoEngine ==
    /\ screenshot_on_error = FALSE /\ e_calls = 0
    /\ e_in = [made |-> FALSE] /\ e_out = [made |-> FALSE] /\ e_shots = {}
    /\ e_builtins = {}

NoRetry == retry_frame = [made |-> FALSE, pc |-> "idle"] /\ retry_calls = 0

NoGroup ==
    /\ gr_list = <<>> /\ gr_shared = FALSE /\ gr_in = <<>> /\ gr_out = <<>>
    /\ gr_done = FALSE

NoUnits == NoGenerator /\ NoClean /\ NoEngine /\ NoRetry /\ NoGroup

\* variant: clear forgets the macros and keeps the queue
clear_TableOnly(fns, queue) == [functions |-> EmptyDict, action_queue |-> queue]

\* clear: self.functions.clear(); self.action_queue.clear()
clear(fns, queue) == [functions |-> EmptyDict, action_queue |-> <<>>]

\* InstructionParser.__init__
FreshParser ==
    /\ functions = EmptyDict
    /\ action_queue = <<>>

InitParser ==
    /\ FreshParser
    /\ p_op = "none" /\ p_input = NoInput /\ p_fresh = TRUE
    /\ p_ret = <<>> /\ p_calls = 0
    /\ retry_attempts = 1 /\ cache_enabled = FALSE
    /\ driver = 0 /\ env = 0 /\ engine = [env |-> 0, execution_count |-> 0]
    /\ code_cache = EmptyDict
    /\ NoFrame /\ NoHistory /\ NoUnits

\* parser.parse(inp)
DoParse(inp) ==
    /\ UNCHANGED unitVars
    /\ p_calls < MaxParserOps
    /\ p_op' = "parse"
    /\ p_input' = inp
    /\ p_fresh' = (p_calls = 0)
    /\ p_calls' = p_calls + 1
    /\ IF ParseFaults(inp)
       THEN /\ p_ret' = <<>>
            /\ UNCHANGED parserVars
       ELSE LET r == parse(inp, functions, action_queue) IN
            /\ functions' = r.functions
            /\ action_queue' = r.action_queue
            /\ p_ret' = r.action_queue
    /\ UNCHANGED <<configVars, fieldVars, frameVars, histVars>>

\* the first call on a fresh parser, given a list
ParseList ==
    /\ p_calls = 0
    /\ \E lines \in SeqsUpTo(LinePool, MaxLines) : DoParse(ListInput(lines))

\* the first call on a fresh parser, given one text block
ParseText ==
    /\ p_calls = 0
    /\ \E lines \in SeqsUpTo(LinePool, MaxLines) : DoParse(TextInput(lines))

\* lines of inputs that use two macro names
TwoNamePool ==
    { <<"a">>,
      <<FUNCTION_START, " ", "f">>,
      <<FUNCTION_START, " ", "g">>,
      <<FUNCTION_END>>,
      <<CALL_FUNCTION, " ", "g">> }

\* the first call on a fresh parser, given a list that uses two macro names
ParseTwoNames ==
    /\ p_calls = 0
    /\ \E lines \in SeqsUpTo(TwoNamePool, MaxLines) : DoParse(ListInput(lines))

\* a call on a parser that has been used
ParseAgain ==
    /\ p_calls > 0
    /\ p_op = "clear" \/ Len(InputLines(p_input)) <= MaxShort
    /\ \E inp \in FollowUps \cup {NoInput} : DoParse(inp)

\* parser.clear()
Clear ==
    /\ UNCHANGED unitVars
    /\ p_calls > 0
    /\ p_calls < MaxParserOps
    /\ p_op = "clear" \/ Len(InputLines(p_input)) <= MaxShort
    /\ functions' = clear(functions, action_queue).functions
    /\ action_queue' = clear(functions, action_queue).action_queue
    /\ p_op' = "clear"
    /\ p_calls' = p_calls + 1
    /\ UNCHANGED <<p_input, p_fresh, p_ret>>
    /\ UNCHANGED <<configVars, fieldVars, frameVars, histVars>>

NextParser == ParseList \/ ParseText \/ ParseTwoNames \/ ParseAgain \/ Clear

SpecParser == InitParser /\ [][NextParser]_vars


(***************************************************************************)
(* CodeGenerator.generate, as BrowserAutomator calls it                    *)
(***************************************************************************)
\* cache_key = f"{instruction}:{context}:{retry_on_error}"
cache_key(instruction, context, retry_on_error) ==
    instruction \o <<":">> \o fstr(context) \o <<":">> \o fstr(retry_on_error)

\* variant: the cache is never consulted
CacheHit_Never(enabled, cache, key) == FALSE

\* the cache check: a hit returns without contacting the provider
CacheHit(enabled, cache, key) == enabled /\ key \in DOMAIN cache

\* the cache write after a successful generation
CacheStore(enabled, cache, key, snippet) ==
    IF enabled THEN Put(cache, key, snippet) ELSE cache

\* what generate_with_retry followed by _clean_code can hand back
Snippets == {<<"s1">>}

\* a value "if value:" takes as true: a text that is not empty
Truthy(v) == v.some /\ v.s # <<>>

\* the markdown code fence, with and without the language tag
FENCE_PY == "<fence>python"
FENCE    == "<fence>"

\* _build_prompt
_build_prompt(instruction, context, error) ==
    <<"SYSTEM_PROMPT", NL, NL>>
    \o (IF Truthy(context)
        THEN <<"Previous context:", NL>> \o context.s \o <<NL, NL>>
        ELSE <<>>)
    \o <<"INSTRUCTION:", NL>> \o instruction \o <<NL, NL>>
    \o (IF Truthy(error)
        THEN <<"Previous attempt failed with error:", NL>> \o error.s
             \o <<NL, NL, "Fix the error and try again.", NL, NL>>
        ELSE <<>>)
    \o <<"OUTPUT (Python code only):", NL, FENCE_PY, NL>>

NotFencePy(x) == x # FENCE_PY
NotFence(x)   == x # FENCE

\* code.replace(FENCE_PY, "").replace(FENCE, "")
RemoveFences(snippet) == SelectSeq(SelectSeq(snippet, NotFencePy), NotFence)

\* "sub in s"
Contains(s, sub) ==
    \E k \in 0..(Len(s) - Len(sub)) : SubSeq(s, k + 1, k + Len(sub)) = sub

RECURSIVE CollapseFrom(_, _)
\* the loop that drops a blank line following a blank line
CollapseFrom(lines, prev_blank) ==
    IF lines = <<>> THEN <<>>
    ELSE LET is_blank == strip(Head(lines)) = <<>> IN
         IF is_blank /\ prev_blank THEN CollapseFrom(Tail(lines), prev_blank)
         ELSE <<Head(lines)>> \o CollapseFrom(Tail(lines), is_blank)

\* line.startswith(('def ', 'class ', 'import ', 'from ', '#'))
StartsDeclaration(line) ==
    \/ Len(line) >= 2 /\ line[1] \in {"def", "class", "import", "from"}
                      /\ line[2] = " "
    \/ line # <<>> /\ line[1] = COMMENT

has_def(snippet) == Contains(snippet, <<"def", " ">>) \/ Contains(snippet, <<"class", " ">>)

has_direct_calls(snippet) ==
    LET lines == split_nl(snippet) IN
    \E k \in 1..Len(lines) :
        strip(lines[k]) # <<>> /\ ~StartsDeclaration(strip(lines[k]))

\* atoms the pattern \w+ does not match
NonWord == WS \cup {":", COMMENT, FENCE, FENCE_PY}

\* position of the name the leftmost match of class\s+(\w+) captures, 0 if
\* the pattern matches nowhere
ClassNameAt(snippet) ==
    LET IsMatch(k, n) ==
            /\ snippet[k] = "class" /\ k + 1 < n
            /\ \A x \in (k + 1)..(n - 1) : snippet[x] \in WS
            /\ snippet[n] \notin NonWord
        starts == {k \in 1..Len(snippet) : \E n \in k..Len(snippet) : IsMatch(k, n)}
    IN IF starts = {} THEN 0
       ELSE LET k == CHOOSE x \in starts : \A y \in starts : x <= y
            IN CHOOSE n \in k..Len(snippet) : IsMatch(k, n)

\* the text appended after a class definition
ClassCall(name) ==
    <<NL, NL, COMMENT, " ", "Execute", NL,
      "instance", " ", "=", " ", name, "(env)", NL,
      "if hasattr(instance, 'run'):", NL, " ", " ", " ", " ",
      "instance.run()", NL,
      "elif hasattr(instance, '__call__'):", NL, " ", " ", " ", " ",
      "instance()">>

\* the text appended after a function definition
FunctionCall(call) == <<NL, NL, COMMENT, " ", "Execute", NL, call>>

\* the decision table at the end of _clean_code
AddInvocation(snippet) ==
    IF has_def(snippet) /\ ~has_direct_calls(snippet)
    THEN IF Contains(snippet, <<"class", " ">>)
         THEN IF ClassNameAt(snippet) # 0
              THEN snippet \o ClassCall(snippet[ClassNameAt(snippet)])
              ELSE snippet
         ELSE IF Contains(snippet, <<"def", " ", "main">>)
              THEN snippet \o FunctionCall("main(env)")
         ELSE IF Contains(snippet, <<"def", " ", "automation">>)
              THEN snippet \o FunctionCall("automation()")
         ELSE snippet
    ELSE snippet

\* _clean_code
_clean_code(snippet) ==
    AddInvocation(
        strip(Join(CollapseFrom(split_nl(strip(RemoveFences(snippet))), FALSE))))

\* GeminiProvider.generate: what it makes of the model's response text
ProviderText(text) == strip(RemoveFences(strip(text)))

\* texts the model can answer with
ModelTexts == { <<"s1">>, <<FENCE_PY, NL, "s2", NL, FENCE>> }

\* variant: clear_cache leaves the entries in place
ClearedCache_Kept(cache) == cache

\* clear_cache: self._code_cache.clear()
ClearedCache(cache) == EmptyDict

(***************************************************************************)
(* SpecGenerator: one CodeGenerator and its provider                       *)
(***************************************************************************)
Tuple(instruction, context, error) ==
    [instruction |-> instruction, context |-> context, error |-> error]

\* the argument tuples generate is called with
GenInputs ==
    { Tuple(<<"a">>, NoneV, NoneV),
      Tuple(<<"a">>, NoneV, Some(<<"boom">>)),
      Tuple(<<"a">>, NoneV, Some(<<"None">>)),
      Tuple(<<"a">>, Some(<<"None">>), NoneV),
      Tuple(<<"b">>, NoneV, NoneV) }

NoStats == [calls |-> 0, provider |-> 0, failed |-> 0]

NoAsked == [asked |-> 0, answered |-> 0]

\* variant: the provider never finds a prompt in its cache
ProviderHit_Never(cache, prompt) == FALSE

\* "if use_cache and prompt in self._cache", use_cache being left at True
ProviderHit(cache, prompt) == prompt \in DOMAIN cache

\* variant: the provider's clear_cache leaves the responses in place
ProviderCleared_Kept(cache) == cache

\* GeminiProvider.clear_cache: self._cache.clear()
ProviderCleared(cache) == EmptyDict

StatsOf(stats, t) == IF t \in DOMAIN stats THEN stats[t] ELSE NoStats

InitGenerator ==
    /\ FreshParser
    /\ p_op = "none" /\ p_input = NoInput /\ p_fresh = TRUE
    /\ p_ret = <<>> /\ p_calls = 0
    /\ retry_attempts = 1
    /\ cache_enabled \in BOOLEAN
    /\ driver = 0 /\ env = 0 /\ engine = [env |-> 0, execution_count |-> 0]
    /\ code_cache = EmptyDict
    /\ NoFrame /\ NoHistory /\ NoUnits

\* generate(instruction, context, retry_on_error)
GenerateCall ==
    /\ g_ops < MaxGenOps
    /\ \E t \in GenInputs :
          LET key    == cache_key(t.instruction, t.context, t.error)
              prompt == _build_prompt(t.instruction, t.context, t.error)
              old    == StatsOf(g_stats, t)
              was    == IF t \in DOMAIN ai_stats THEN ai_stats[t] ELSE NoAsked
              call   == [made |-> TRUE, t |-> t, key |-> key,
                         before |-> code_cache,
                         ai_before |-> ai_cache, was |-> was,
                         first |-> old.calls = 0,
                         siblings |-> {u \in DOMAIN g_stats :
                                          /\ u.instruction = t.instruction
                                          /\ u.context = t.context
                                          /\ u # t}]
          IN IF CacheHit(cache_enabled, code_cache, key)
             THEN /\ g_call' = [call EXCEPT !.made = TRUE] @@
                               [hit |-> TRUE, contacted |-> FALSE,
                                model |-> FALSE, prompt |-> <<>>,
                                raised |-> FALSE, result |-> code_cache[key]]
                  /\ g_stats' = Put(g_stats, t,
                                    [old EXCEPT !.calls = @ + 1])
                  /\ UNCHANGED <<code_cache, ai_cache, ai_stats>>
             ELSE IF ProviderHit(ai_cache, prompt)
             THEN \* the provider answers from its own cache
                  LET snippet == _clean_code(ai_cache[prompt]) IN
                  /\ g_call' = call @@
                               [hit |-> FALSE, contacted |-> TRUE,
                                model |-> FALSE, prompt |-> prompt,
                                raised |-> FALSE, result |-> snippet]
                  /\ g_stats' = Put(g_stats, t,
                                    [old EXCEPT !.calls = @ + 1,
                                                !.provider = @ + 1])
                  /\ ai_stats' = Put(ai_stats, t,
                                     [asked |-> was.asked + 1,
                                      answered |-> was.answered + 1])
                  /\ code_cache' = CacheStore(cache_enabled, code_cache,
                                              key, snippet)
                  /\ UNCHANGED ai_cache
             ELSE \E answer \in ModelTexts \cup {<<"GenerationError">>} :
                     IF answer \in ModelTexts
                     THEN LET text == ProviderText(answer)
                              snippet == _clean_code(text)
                          IN /\ g_call' = call @@
                                  [hit |-> FALSE, contacted |-> TRUE,
                                   model |-> TRUE, prompt |-> prompt,
                                   raised |-> FALSE, result |-> snippet]
                             /\ g_stats' = Put(g_stats, t,
                                    [old EXCEPT !.calls = @ + 1,
                                                !.provider = @ + 1])
                             /\ ai_stats' = Put(ai_stats, t,
                                    [asked |-> was.asked + 1,
                                     answered |-> was.answered + 1])
                             /\ ai_cache' = Put(ai_cache, prompt, text)
                             /\ code_cache' = CacheStore(cache_enabled,
                                                  code_cache, key, snippet)
                     ELSE \* every attempt of generate_with_retry failed
                          /\ g_call' = call @@
                                  [hit |-> FALSE, contacted |-> TRUE,
                                   model |-> TRUE, prompt |-> prompt,
                                   raised |-> TRUE, result |-> <<>>]
                          /\ g_stats' = Put(g_stats, t,
                                    [old EXCEPT !.calls = @ + 1,
                                                !.provider = @ + 1,
                                                !.failed = @ + 1])
                          /\ ai_stats' = Put(ai_stats, t,
                                    [was EXCEPT !.asked = @ + 1])
                          /\ UNCHANGED <<code_cache, ai_cache>>
    /\ g_op' = "generate"
    /\ g_ops' = g_ops + 1
    /\ UNCHANGED <<parserVars, parserHist, configVars, driver, env, engine,
                   frameVars, histVars, cleanVars, groupVars, engVars,
                   retryVars>>

\* code_generator.clear_cache()
ClearCache ==
    /\ g_ops < MaxGenOps
    /\ g_ops > 0
    /\ code_cache' = ClearedCache(code_cache)
    /\ g_stats' = EmptyDict
    /\ g_op' = "clear_cache"
    /\ g_ops' = g_ops + 1
    /\ UNCHANGED <<ai_cache, g_call, ai_stats>>
    /\ UNCHANGED <<parserVars, parserHist, configVars, driver, env, engine,
                   frameVars, histVars, cleanVars, groupVars, engVars,
                   retryVars>>

\* ai.clear_cache(): the provider forgets its responses
ProviderClear ==
    /\ g_ops < MaxGenOps
    /\ g_ops > 0
    /\ ai_cache' = ProviderCleared(ai_cache)
    /\ ai_stats' = EmptyDict
    /\ g_op' = "ai_clear"
    /\ g_ops' = g_ops + 1
    /\ UNCHANGED <<code_cache, g_call, g_stats>>
    /\ UNCHANGED <<parserVars, parserHist, configVars, driver, env, engine,
                   frameVars, histVars, cleanVars, groupVars, engVars,
                   retryVars>>

NextGenerator == GenerateCall \/ ClearCache \/ ProviderClear

SpecGenerator == InitGenerator /\ [][NextGenerator]_vars

(***************************************************************************)
(* SpecClean: _clean_code applied to one response                          *)
(***************************************************************************)
\* the lines responses are made of
CodeLines ==
    { <<"stmt">>,                                   \* a top-level statement
      <<" ", "stmt">>,                              \* an indented statement
      <<"def", " ", "main", "(env):">>,
      <<"def", " ", "main", "(env):", " ", "pass">>,
      <<"def", " ", "go", "():", " ", "pass">>,
      <<"class", " ", "Foo", ":">>,
      <<" ", "def", " ", "run", "(self):", " ", "pass">>,
      <<FENCE_PY>>,
      <<>> }

InitClean ==
    /\ FreshParser
    /\ p_op = "none" /\ p_input = NoInput /\ p_fresh = TRUE
    /\ p_ret = <<>> /\ p_calls = 0
    /\ retry_attempts = 1 /\ cache_enabled = FALSE
    /\ driver = 0 /\ env = 0 /\ engine = [env |-> 0, execution_count |-> 0]
    /\ code_cache = EmptyDict
    /\ NoFrame /\ NoHistory /\ NoGenerator /\ NoEngine /\ NoRetry /\ NoGroup
    /\ c_raw \in {Join(lines) : lines \in SeqsUpTo(CodeLines, MaxCodeLines)}
    /\ c_out = <<>> /\ c_done = FALSE

\* code = self._clean_code(code)
CleanCode ==
    /\ ~c_done
    /\ c_out' = _clean_code(c_raw)
    /\ c_done' = TRUE
    /\ UNCHANGED c_raw
    /\ UNCHANGED <<parserVars, parserHist, configVars, fieldVars, frameVars,
                   histVars, genVars, engVars, retryVars, groupVars>>

NextClean == CleanCode

SpecClean == InitClean /\ [][NextClean]_vars

(***************************************************************************)
(* SpecGroup: InstructionParser.group_related_actions on one list          *)
(***************************************************************************)
\* str.lower() of one run of characters
LowerAtom(a) ==
    CASE a = "Then"  -> "then"
      [] a = "After" -> "after"
      [] a = "That"  -> "that"
      [] OTHER       -> a

\* action.lower()
lower(s) == [k \in 1..Len(s) |-> LowerAtom(s[k])]

\* ["then", "and", "after that", "next"]
Keywords ==
    { <<"then">>, <<"and">>, <<"after", " ", "that">>, <<"next">> }

\* variant: the cue words are looked for in the instruction as written
is_continuation_AsWritten(action) ==
    \E keyword \in Keywords : Contains(action, keyword)

\* is_continuation = any(keyword in action_lower for keyword in [...])
is_continuation(action) ==
    \E keyword \in Keywords : Contains(lower(action), keyword)

RECURSIVE GroupFrom(_, _, _, _)
\* the for loop of group_related_actions and the flush that follows it
GroupFrom(actions, k, grouped, current_block) ==
    IF k > Len(actions)
    THEN IF current_block # <<>> THEN Append(grouped, Join(current_block))
         ELSE grouped
    ELSE LET action == actions[k] IN
         IF is_continuation(action) /\ current_block # <<>>
         THEN GroupFrom(actions, k + 1, grouped, Append(current_block, action))
         ELSE GroupFrom(actions, k + 1,
                        IF current_block # <<>>
                        THEN Append(grouped, Join(current_block))
                        ELSE grouped,
                        <<action>>)

group_related_actions(actions) == GroupFrom(actions, 1, <<>>, <<>>)

\* the instructions lists are made of, as parse queues them (trimmed)
ActionPool ==
    { <<"go">>,                                \* no cue word
      <<"Then", " ", "b">>,                    \* a cue word, capitalised
      <<"open", " ", "comm", "and">>,          \* "and" inside "command"
      <<"after", " ", "that", " ", "c">>,      \* the cue of two words
      <<"after", " ", "b">>,                   \* half of that cue
      <<"a", NL, "b">> }                       \* an element of a list input
                                               \* that holds a line break

InitGroup ==
    /\ functions = EmptyDict
    /\ p_op = "none" /\ p_input = NoInput /\ p_fresh = TRUE
    /\ p_ret = <<>> /\ p_calls = 0
    /\ retry_attempts = 1 /\ cache_enabled = FALSE
    /\ driver = 0 /\ env = 0 /\ engine = [env |-> 0, execution_count |-> 0]
    /\ code_cache = EmptyDict
    /\ NoFrame /\ NoHistory /\ NoGenerator /\ NoClean /\ NoEngine /\ NoRetry
    /\ gr_list \in SeqsUpTo(ActionPool, MaxActions)
    /\ gr_shared \in BOOLEAN
    /\ action_queue = IF gr_shared THEN gr_list ELSE <<>>
    /\ gr_in = <<>> /\ gr_out = <<>> /\ gr_done = FALSE

\* grouped = parser.group_related_actions(actions)
GroupCall ==
    /\ ~gr_done
    /\ gr_in' = gr_list
    /\ gr_out' = group_related_actions(gr_list)
    /\ gr_done' = TRUE
    /\ UNCHANGED <<gr_list, gr_shared>>
    /\ UNCHANGED <<parserVars, parserHist, configVars, fieldVars, frameVars,
                   histVars, genVars, cleanVars, engVars, retryVars>>

NextGroup == GroupCall

SpecGroup == InitGroup /\ [][NextGroup]_vars

(***************************************************************************)
(* ActionEngine.execute, as BrowserAutomator calls it                      *)
(***************************************************************************)
\* what running a snippet through exec() can do
Behaviours ==
    { [raises |-> "none",          type |-> "",  msg |-> <<>>,        printable |-> TRUE],
      [raises |-> "Exception",     type |-> "ValueError",
                                   msg |-> <<"boom">>,                printable |-> TRUE],
      [raises |-> "Exception",     type |-> "TimeoutException",
                                   msg |-> <<"late">>,                printable |-> TRUE],
      [raises |-> "Exception",     type |-> "Odd", msg |-> <<>>,      printable |-> FALSE],
      [raises |-> "BaseException", type |-> "SystemExit",
                                   msg |-> <<"1">>,                   printable |-> TRUE] }

\* "except Exception": SystemExit, KeyboardInterrupt and GeneratorExit pass
CaughtByExceptException(kind) == kind = "Exception"

\* variant: the kind name is left out of the message
_format_error_NoKind(b) == b.msg \o <<NL, "trace">>

\* _format_error: kind name, message and the tail of the trace
_format_error(b) == <<b.type, ":", " ">> \o b.msg \o <<NL, "trace">>

\* variant: the counter is set, not advanced
NextExecutionCount_Set(count) == 1

\* self.execution_count += 1
NextExecutionCount(count) == count + 1

\* the extra bindings a caller can hand to execute: none, or one name
Contexts == { {}, {"extra"} }

\* names the builtins module holds (three of them)
BuiltinNames == {"open", "__import__", "exit"}

\* _prepare_scope: the names of the dict handed to exec()
_prepare_scope(context) ==
    {"env", "driver", "Keys", "__builtins__"} \cup context

\* a name the snippet reads is looked up in the scope, then among the
\* builtins the scope carries
Resolves(name, scope, added) ==
    \/ name \in scope
    \/ "__builtins__" \in scope /\ name \in BuiltinNames \cup added

\* where a snippet binds the name leak: nowhere, in its scope (leak = 1), or
\* in the builtins its scope carries (import builtins; builtins.leak = 1)
BindKinds == {"none", "scope", "builtins"}

\* the scope as the snippet's own bindings leave it
ScopeAfter(scope, bind) == IF bind = "scope" THEN scope \cup {"leak"} ELSE scope

\* the builtins after the snippet ran; '__builtins__': __builtins__ hands every
\* scope the interpreter's one builtins namespace, and a snippet that does
\* not compile binds nothing
BuiltinsAfter(added, bind, b) ==
    IF bind = "builtins" /\ b.type # "SyntaxError"
    THEN added \cup {"leak"} ELSE added

\* what a snippet that reads an unbound name does
NameErrorOf(name) ==
    [raises |-> "Exception", type |-> "NameError",
     msg |-> <<name, " ", "is not defined">>, printable |-> TRUE]

\* variant: the screenshot is taken whatever the setting
TakesScreenshot_Always(enabled) == TRUE

\* "if self.screenshot_on_error"
TakesScreenshot(enabled) == enabled

\* variant: a fault of the capture leaves _save_error_screenshot
_save_error_screenshot_Unguarded(dir_ok, shot_ok) ==
    [captures |-> IF dir_ok THEN 1 ELSE 0,
     saved    |-> dir_ok /\ shot_ok,
     raised   |-> IF dir_ok /\ shot_ok THEN "none" ELSE "Exception"]

\* _save_error_screenshot: os.makedirs, then env.screenshot, any fault of
\* either logged and dropped
_save_error_screenshot(dir_ok, shot_ok) ==
    [captures |-> IF dir_ok THEN 1 ELSE 0,
     saved    |-> dir_ok /\ shot_ok,
     raised   |-> "none"]

\* execute: what the caller gets, a returned pair or a fault
execute(b) ==
    IF b.raises = "none"
    THEN [raised |-> "none", success |-> TRUE, error |-> NoneV]
    ELSE IF ~CaughtByExceptException(b.raises)
    THEN [raised |-> b.raises, success |-> FALSE, error |-> NoneV]
    ELSE IF ~b.printable     \* str(exception) raises inside the handler
    THEN [raised |-> "Exception", success |-> FALSE, error |-> NoneV]
    ELSE [raised |-> "none", success |-> FALSE, error |-> Some(_format_error(b))]

(***************************************************************************)
(* SpecEngine: one ActionEngine, its execute calls                         *)
(***************************************************************************)
\* what a snippet can do, a malformed one included
EngineBehaviours ==
    Behaviours \cup
    { [raises |-> "Exception", type |-> "SyntaxError",
       msg |-> <<"invalid syntax">>, printable |-> TRUE] }

\* ActionEngine(env, screenshot_on_error); env = 0 is an engine that was
\* handed no environment
InitEngine ==
    /\ FreshParser
    /\ p_op = "none" /\ p_input = NoInput /\ p_fresh = TRUE
    /\ p_ret = <<>> /\ p_calls = 0
    /\ retry_attempts = 1 /\ cache_enabled = FALSE
    /\ driver = 0
    /\ env \in {0, 1}
    /\ engine = [env |-> env, execution_count |-> 0]
    /\ code_cache = EmptyDict
    /\ NoFrame /\ NoHistory /\ NoGenerator /\ NoClean /\ NoRetry /\ NoGroup
    /\ screenshot_on_error \in BOOLEAN
    /\ e_calls = 0 /\ e_in = [made |-> FALSE] /\ e_out = [made |-> FALSE]
    /\ e_shots = {} /\ e_builtins = {}

\* names a snippet may read
SnippetNames == {"env", "driver", "Keys", "extra", "open", "nothing", "leak"}

\* what a snippet reads and binds: it only reads a name, or it binds leak in
\* its scope and reads it, or it binds leak in the builtins
SnippetKinds ==
    { [reads |-> n, binds |-> "none"] : n \in SnippetNames }
    \cup { [reads |-> "leak", binds |-> "scope"],
           [reads |-> "env",  binds |-> "builtins"] }

\* engine.execute(code, context)
EngineExecute ==
    /\ e_calls < MaxExec
    /\ e_calls' = e_calls + 1
    /\ engine' = [engine EXCEPT
                     !.execution_count = NextExecutionCount(@)]
    /\ \E b \in EngineBehaviours, context \in Contexts, sn \in SnippetKinds :
          IF engine.env = 0
          THEN \* _prepare_scope reads self.env.driver outside the try block
               /\ e_in' = [made |-> TRUE, does |-> b, context |-> context,
                           reads |-> sn.reads, binds |-> sn.binds,
                           dir_ok |-> TRUE, shot_ok |-> TRUE]
               /\ e_out' = [made |-> TRUE, raised |-> "Exception",
                            success |-> FALSE, error |-> NoneV,
                            captures |-> 0, shot_fault |-> FALSE]
               /\ UNCHANGED <<e_shots, e_builtins>>
          ELSE LET scope == ScopeAfter(_prepare_scope(context), sn.binds)
                   added == BuiltinsAfter(e_builtins, sn.binds, b)
                   does  == IF Resolves(sn.reads, scope, added) THEN b
                            ELSE NameErrorOf(sn.reads)
                   out   == execute(does)
                   handled == out.raised = "none" /\ ~out.success
               IN /\ e_builtins' = added
                  /\ IF handled /\ TakesScreenshot(screenshot_on_error)
                     THEN \E dir_ok \in BOOLEAN, shot_ok \in BOOLEAN :
                          LET shot == _save_error_screenshot(dir_ok, shot_ok)
                          IN /\ e_in' = [made |-> TRUE, does |-> does,
                                         context |-> context,
                                         reads |-> sn.reads,
                                         binds |-> sn.binds,
                                         dir_ok |-> dir_ok,
                                         shot_ok |-> shot_ok]
                             /\ e_out' =
                                  [made |-> TRUE,
                                   raised |-> shot.raised,
                                   success |-> FALSE,
                                   error |-> IF shot.raised = "none"
                                             THEN out.error ELSE NoneV,
                                   captures |-> shot.captures,
                                   shot_fault |-> ~shot.saved]
                             /\ e_shots' =
                                  IF shot.saved
                                  THEN e_shots \cup {engine'.execution_count}
                                  ELSE e_shots
                     ELSE /\ e_in' = [made |-> TRUE, does |-> does,
                                      context |-> context,
                                      reads |-> sn.reads, binds |-> sn.binds,
                                      dir_ok |-> TRUE, shot_ok |-> TRUE]
                          /\ e_out' = [made |-> TRUE, raised |-> out.raised,
                                       success |-> out.success,
                                       error |-> out.error,
                                       captures |-> 0, shot_fault |-> FALSE]
                          /\ UNCHANGED e_shots
    /\ UNCHANGED <<parserVars, parserHist, configVars, driver, env,
                   code_cache, frameVars, histVars, genVars, cleanVars, groupVars,
                   retryVars, screenshot_on_error>>

NextEngine == EngineExecute

SpecEngine == InitEngine /\ [][NextEngine]_vars

(***************************************************************************)
(* BrowserAutomator                                                        *)
(***************************************************************************)
\* variant: the loop runs once more than configured
InRange_Inclusive(a, r) == a <= r

\* for attempt in range(retry_attempts)
InRange(a, r) == a < r

\* variant: the error of the instruction before is carried over
FirstError_Carried(previous) == previous

\* last_error = None at the start of _execute_action
FirstError(previous) == NoneV

\* last_error = error after a failed execution
NextError(previous, error) == error

\* "if self.config.automation.retry_attempts <= 1: break" in _execute_action
StopRetrying(r) == r <= 1

\* variant: the run stops on a failure only when no attempt is configured
FailFast_OffByOne(r) == r < 1

\* "if self.config.automation.retry_attempts <= 1: break" in run
FailFast(r) == r <= 1

\* variant: the flag follows the latest instruction only
Aggregate_LastOnly(all, ok) == ok

\* "if not success: all_success = False"
Aggregate(all, ok) == IF ~ok THEN FALSE ELSE all

\* variant: a generation fault is retried like a failed execution
AfterGenerationFault_Retried(a, r) ==
    IF InRange(a + 1, r) THEN "attempt" ELSE "resolved"

\* where _execute_action goes after generate raised
AfterGenerationFault(a, r) == "resolved"

\* variant: a successful attempt does not leave the retry loop
AfterExecute_NoReturn(ok, r) ==
    IF StopRetrying(r) THEN "resolved" ELSE "attempt"

\* where _execute_action goes after execute returned
AfterExecute(ok, r) ==
    IF ok THEN "resolved" ELSE IF StopRetrying(r) THEN "resolved" ELSE "attempt"

\* variant: the delay follows the final instruction as well
DelayAfter_Always(k, n) == k <= n

\* "if i < len(action_queue): time.sleep(action_delay)"
DelayAfter(k, n) == k < n

\* variant: the browser is created on every call
NeedsBrowser_Always(drv) == TRUE

\* "if self.driver is None" in _initialize_browser
NeedsBrowser(drv) == drv = 0

\* "if close_browser and self.driver" in the finally clause of run
ShouldCleanup(close, drv) == close /\ drv # 0

\* variant: _cleanup forgets the engine
CleanedUp_EngineKept == [driver |-> 0, env |-> 0, engine |-> engine]

\* the fields after _cleanup
CleanedUp == [driver |-> 0, env |-> 0, engine |-> [env |-> 0, execution_count |-> 0]]

\* the instructions run is called with
RunInputs ==
    { ListInput(<<>>),
      ListInput(<<<<"a">>>>),
      TextInput(<<<<"a">>, <<" ", "b">>>>),
      NoInput }

\* the longest script among RunInputs; the queue a run executes is kept
\* within it, so a run that would pile more onto the parser is not explored
LongestScript ==
    CHOOSE n \in 0..MaxLines :
        /\ \E inp \in RunInputs : Len(InputLines(inp)) = n
        /\ \A inp \in RunInputs : Len(InputLines(inp)) <= n

Init ==
    /\ FreshParser
    /\ p_op = "none" /\ p_input = NoInput /\ p_fresh = TRUE
    /\ p_ret = <<>> /\ p_calls = 0
    /\ retry_attempts \in (0 - 1)..MaxRetry
    /\ cache_enabled \in BOOLEAN
    /\ driver = 0 /\ env = 0 /\ engine = [env |-> 0, execution_count |-> 0]
    /\ code_cache = EmptyDict
    /\ NoFrame /\ NoHistory /\ NoUnits

\* run(instructions, close_browser) is called
Run ==
    /\ UNCHANGED unitVars
    /\ pc = "idle"
    /\ runs < MaxRuns
    /\ \E inp \in RunInputs, close \in BOOLEAN :
          /\ Len(action_queue) + Len(InputLines(inp)) <= LongestScript
          /\ instructions' = inp
          /\ close_browser' = close
    /\ pc' = "init"
    /\ runs' = runs + 1
    /\ i' = 0 /\ all_success' = TRUE /\ attempt' = 0 /\ last_error' = NoneV
    /\ code' = <<>> /\ success' = FALSE /\ exc' = "none" /\ retval' = "none"
    /\ gen_calls' = 0 /\ exec_calls' = 0 /\ n_ok' = 0 /\ n_failed' = 0
    /\ gen_faulted' = FALSE /\ succeeded' = FALSE
    /\ last_gen' = [made |-> FALSE] /\ last_exec' = [made |-> FALSE]
    /\ delays' = {} /\ quit_swallowed' = FALSE /\ created_in_run' = FALSE
    /\ quits' = 0 /\ prev_closed' = (quits > 0) /\ create_calls' = 0
    /\ UNCHANGED <<parserVars, parserHist, configVars, fieldVars>>

\* _initialize_browser
InitializeBrowser ==
    /\ UNCHANGED unitVars
    /\ pc = "init"
    /\ IF NeedsBrowser(driver)
       THEN /\ create_calls' = create_calls + 1
            /\ \E ok \in BOOLEAN :
                  IF ok
                  THEN /\ driver' = runs
                       /\ env' = runs
                       /\ engine' = [env |-> runs, execution_count |-> 0]
                       /\ created_in_run' = TRUE
                       /\ pc' = "parse"
                       /\ exc' = exc
                  ELSE /\ exc' = "Exception"
                       /\ pc' = "except"
                       /\ UNCHANGED <<driver, env, engine, created_in_run>>
       ELSE /\ pc' = "parse"
            /\ UNCHANGED <<driver, env, engine, created_in_run, create_calls, exc>>
    /\ UNCHANGED <<parserVars, parserHist, configVars, code_cache,
                   instructions, close_browser, i, all_success, attempt,
                   last_error, code, success, retval,
                   runs, gen_calls, exec_calls, n_ok, n_failed, gen_faulted,
                   succeeded, last_gen, last_exec, delays, quits, prev_closed,
                   quit_swallowed>>

\* action_queue = self.parser.parse(instructions); all_success = True
Parse ==
    /\ UNCHANGED unitVars
    /\ pc = "parse"
    /\ IF ParseFaults(instructions)
       THEN /\ exc' = "Exception"
            /\ pc' = "except"
            /\ UNCHANGED <<parserVars, i, all_success>>
       ELSE LET r == parse(instructions, functions, action_queue) IN
            /\ functions' = r.functions
            /\ action_queue' = r.action_queue
            /\ all_success' = TRUE
            /\ i' = 1
            /\ pc' = "loop"
            /\ exc' = exc
    /\ UNCHANGED <<parserHist, configVars, fieldVars, instructions,
                   close_browser, attempt, last_error, code, success, retval,
                   histVars>>

\* the head of "for i, action in enumerate(action_queue, 1)"; entering
\* _execute_action(action)
NextInstruction ==
    /\ UNCHANGED unitVars
    /\ pc = "loop"
    /\ IF i > Len(action_queue)
       THEN /\ pc' = "return"
            /\ UNCHANGED <<attempt, last_error, gen_calls, exec_calls,
                           gen_faulted, succeeded>>
       ELSE /\ pc' = "attempt"
            /\ attempt' = 0
            /\ last_error' = FirstError(last_error)
            /\ gen_calls' = 0 /\ exec_calls' = 0
            /\ gen_faulted' = FALSE /\ succeeded' = FALSE
    /\ UNCHANGED <<parserVars, parserHist, configVars, fieldVars,
                   instructions, close_browser, i, all_success, code, success,
                   exc, retval, runs, n_ok, n_failed, last_gen, last_exec,
                   delays, create_calls, quits, prev_closed, quit_swallowed,
                   created_in_run>>

\* the head of "for attempt in range(retry_attempts)"; "return False" below it
NextAttempt ==
    /\ UNCHANGED unitVars
    /\ pc = "attempt"
    /\ IF InRange(attempt, retry_attempts)
       THEN /\ pc' = "generate"
            /\ success' = success
       ELSE /\ pc' = "resolved"
            /\ success' = FALSE
    /\ UNCHANGED <<parserVars, parserHist, configVars, fieldVars,
                   instructions, close_browser, i, all_success, attempt,
                   last_error, code, exc, retval, histVars>>

\* code = self.code_generator.generate(action, retry_on_error=last_error),
\* the provider answering with one of answers or with a fault; with observe
\* the call record also tells whether the cache was hit, how often the
\* provider was contacted for this instruction and with which prior errors
GenerateWith(answers, observe) ==
    /\ UNCHANGED unitVars
    /\ pc = "generate"
    /\ LET action == action_queue[i]
           key    == cache_key(action, NoneV, last_error)
           hit    == CacheHit(cache_enabled, code_cache, key)
           same   == attempt > 0 /\ last_gen.made
           seen   == [hit |-> hit,
                      contacts |-> (IF same THEN last_gen.seen.contacts ELSE 0)
                                   + (IF hit THEN 0 ELSE 1),
                      errors |-> (IF same THEN last_gen.seen.errors ELSE {})
                                 \cup {last_error}]
           call   == [made |-> TRUE, pos |-> i, attempt |-> attempt,
                      instruction |-> action, context |-> NoneV,
                      error |-> last_error, failed_before |-> n_failed,
                      after_success |-> succeeded, preceding |-> last_exec,
                      seen |-> IF observe THEN seen ELSE [hit |-> FALSE]]
       IN /\ last_gen' = call
          /\ gen_calls' = gen_calls + 1
          /\ IF hit
             THEN /\ code' = code_cache[key]
                  /\ pc' = "execute"
                  /\ UNCHANGED <<code_cache, gen_faulted, success>>
             ELSE \E answer \in answers \cup {<<"GenerationError">>} :
                     IF answer \in answers
                     THEN /\ code' = answer
                          /\ code_cache' = CacheStore(cache_enabled, code_cache,
                                                      key, answer)
                          /\ pc' = "execute"
                          /\ UNCHANGED <<gen_faulted, success>>
                     ELSE /\ gen_faulted' = TRUE
                          /\ pc' = AfterGenerationFault(attempt, retry_attempts)
                          /\ success' = FALSE
                          /\ UNCHANGED <<code, code_cache>>
    /\ attempt' = IF pc' = "attempt" THEN attempt + 1 ELSE attempt
    /\ UNCHANGED <<parserVars, parserHist, configVars, driver, env, engine,
                   instructions, close_browser, i, all_success, last_error,
                   exc, retval, runs, exec_calls, n_ok, n_failed, succeeded,
                   last_exec, delays, create_calls, quits, prev_closed, quit_swallowed,
                   created_in_run>>

Generate == GenerateWith(Snippets, FALSE)

\* success, error = self.engine.execute(code) and the rest of the loop body
Execute ==
    /\ UNCHANGED unitVars
    /\ pc = "execute"
    /\ \E b \in Behaviours :
          LET out == execute(b) IN
          /\ engine' = [engine EXCEPT
                           !.execution_count = NextExecutionCount(@)]
          /\ exec_calls' = exec_calls + 1
          /\ last_exec' = [made |-> TRUE, pos |-> i, attempt |-> attempt,
                           raised |-> out.raised, success |-> out.success,
                           error |-> out.error, failed_before |-> n_failed,
                           after_success |-> succeeded]
          /\ IF out.raised # "none"
             THEN /\ exc' = out.raised
                  /\ pc' = IF CaughtByExceptException(out.raised)
                           THEN "except" ELSE "finally"
                  /\ UNCHANGED <<success, last_error, attempt, succeeded>>
             ELSE /\ exc' = exc
                  /\ succeeded' = out.success
                  /\ pc' = AfterExecute(out.success, retry_attempts)
                  /\ success' = IF pc' = "resolved" THEN out.success ELSE success
                  /\ last_error' = IF out.success THEN last_error
                                   ELSE NextError(last_error, out.error)
                  /\ attempt' = IF pc' = "attempt" THEN attempt + 1 ELSE attempt
    /\ UNCHANGED <<parserVars, parserHist, configVars, driver, env, code_cache,
                   instructions, close_browser, i, all_success, code, retval,
                   runs, gen_calls, n_ok, n_failed, gen_faulted, last_gen,
                   delays, create_calls, quits, prev_closed, quit_swallowed,
                   created_in_run>>

\* back in run: the body of the for loop after _execute_action returned
Resolved ==
    /\ UNCHANGED unitVars
    /\ pc = "resolved"
    /\ all_success' = Aggregate(all_success, success)
    /\ n_ok' = IF success THEN n_ok + 1 ELSE n_ok
    /\ n_failed' = IF success THEN n_failed ELSE n_failed + 1
    /\ IF ~success /\ FailFast(retry_attempts)
       THEN /\ pc' = "return"
            /\ UNCHANGED <<i, delays>>
       ELSE /\ delays' = IF DelayAfter(i, Len(action_queue))
                         THEN delays \cup {i} ELSE delays
            /\ i' = i + 1
            /\ pc' = "loop"
    /\ UNCHANGED <<parserVars, parserHist, configVars, fieldVars,
                   instructions, close_browser, attempt, last_error, code,
                   success, exc, retval, runs, gen_calls, exec_calls,
                   gen_faulted, succeeded, last_gen, last_exec, create_calls,
                   quits, prev_closed, quit_swallowed, created_in_run>>

\* "return all_success", and "except Exception: return False"
Return ==
    /\ UNCHANGED unitVars
    /\ pc \in {"return", "except"}
    /\ retval' = IF pc = "except" THEN "False"
                 ELSE IF all_success THEN "True" ELSE "False"
    /\ exc' = "none"
    /\ pc' = "finally"
    /\ UNCHANGED <<parserVars, parserHist, configVars, fieldVars,
                   instructions, close_browser, i, all_success, attempt,
                   last_error, code, success, histVars>>

\* the finally clause of run with _cleanup; run is left
Finally ==
    /\ UNCHANGED unitVars
    /\ pc = "finally"
    /\ IF ShouldCleanup(close_browser, driver)
       THEN /\ quits' = quits + 1
            /\ quit_swallowed' \in BOOLEAN
            /\ driver' = CleanedUp.driver
            /\ env' = CleanedUp.env
            /\ engine' = CleanedUp.engine
       ELSE UNCHANGED <<quits, quit_swallowed, driver, env, engine>>
    /\ retval' = IF exc # "none" THEN "raised" ELSE retval
    /\ pc' = "idle"
    /\ UNCHANGED <<parserVars, parserHist, configVars, code_cache,
                   instructions, close_browser, i, all_success, attempt,
                   last_error, code, success, exc,
                   runs, gen_calls, exec_calls, n_ok, n_failed, gen_faulted,
                   succeeded, last_gen, last_exec, delays, create_calls,
                   prev_closed, created_in_run>>

Next ==
    \/ Run
    \/ InitializeBrowser
    \/ Parse
    \/ NextInstruction
    \/ NextAttempt
    \/ Generate
    \/ Execute
    \/ Resolved
    \/ Return
    \/ Finally

Spec == Init /\ [][Next]_vars

(***************************************************************************)
(* SpecLoop: one run with retries configured and a provider that has more  *)
(* than one answer, the generate calls of each retry loop observed         *)
(***************************************************************************)
\* the snippets the provider answers with
TwoSnippets == {<<"s1">>, <<"s2">>}

InitLoop ==
    /\ FreshParser
    /\ p_op = "none" /\ p_input = NoInput /\ p_fresh = TRUE
    /\ p_ret = <<>> /\ p_calls = 0
    /\ retry_attempts \in 2..MaxRetry
    /\ cache_enabled \in BOOLEAN
    /\ driver = 0 /\ env = 0 /\ engine = [env |-> 0, execution_count |-> 0]
    /\ code_cache = EmptyDict
    /\ NoFrame /\ NoHistory /\ NoUnits

\* the first run call of the automator
FirstRun == runs = 0 /\ Run

GenerateObserved == GenerateWith(TwoSnippets, TRUE)

NextLoop ==
    \/ FirstRun
    \/ InitializeBrowser
    \/ Parse
    \/ NextInstruction
    \/ NextAttempt
    \/ GenerateObserved
    \/ Execute
    \/ Resolved
    \/ Return
    \/ Finally

SpecLoop == InitLoop /\ [][NextLoop]_vars

(***************************************************************************)
(* SpecProvider: one GeminiProvider, its generate_with_retry calls         *)
(***************************************************************************)
\* variant: the last failed attempt is followed by a pause as well
RetriesLeft_OffByOne(tried, max_retries) == tried < max_retries

\* "if attempt < max_retries - 1"
RetriesLeft(tried, max_retries) == tried < max_retries - 1

\* the prompts generate_with_retry is called with
Prompts == { <<"p1">>, <<"p2">> }

\* the faults a model call can raise
ModelFaults == { <<"ResourceExhausted">>, <<"DeadlineExceeded">> }

InitProvider ==
    /\ FreshParser
    /\ p_op = "none" /\ p_input = NoInput /\ p_fresh = TRUE
    /\ p_ret = <<>> /\ p_calls = 0
    /\ retry_attempts = 1 /\ cache_enabled = FALSE
    /\ driver = 0 /\ env = 0 /\ engine = [env |-> 0, execution_count |-> 0]
    /\ code_cache = EmptyDict
    /\ NoFrame /\ NoHistory /\ NoUnits

\* generate_with_retry(prompt, max_retries, use_cache=...) is called
RetryCall ==
    /\ retry_frame.pc = "idle"
    /\ retry_calls < MaxRetryCalls
    /\ retry_calls' = retry_calls + 1
    /\ \E prompt \in Prompts, max_retries \in 0..MaxTries, use_cache \in BOOLEAN :
          retry_frame' =
              [made |-> TRUE, pc |-> "loop", prompt |-> prompt,
               max_retries |-> max_retries, use_cache |-> use_cache,
               attempt |-> 0, model_calls |-> 0, failed |-> 0, sleeps |-> 0,
               fault |-> <<>>, outcome |-> "none", result |-> <<>>,
               from_cache |-> FALSE, before |-> ai_cache]
    /\ UNCHANGED <<parserVars, parserHist, configVars, fieldVars, frameVars,
                   histVars, genVars, cleanVars, groupVars, engVars>>

\* the head of "for attempt in range(max_retries)" and self.generate(prompt)
RetryAttempt ==
    /\ retry_frame.pc = "loop"
    /\ LET f == retry_frame IN
       IF ~InRange(f.attempt, f.max_retries)
       THEN \* the loop is over: the function ends without a return statement
            /\ retry_frame' = [f EXCEPT !.pc = "idle", !.outcome = "none_returned"]
            /\ UNCHANGED ai_cache
       ELSE IF f.use_cache /\ f.prompt \in DOMAIN ai_cache
       THEN /\ retry_frame' = [f EXCEPT !.pc = "idle", !.outcome = "returned",
                                       !.result = ai_cache[f.prompt],
                                       !.from_cache = TRUE]
            /\ UNCHANGED ai_cache
       ELSE \E answer \in ModelTexts \cup ModelFaults :
               IF answer \in ModelTexts
               THEN /\ retry_frame' =
                        [f EXCEPT !.pc = "idle", !.outcome = "returned",
                                  !.model_calls = @ + 1,
                                  !.result = ProviderText(answer)]
                    /\ ai_cache' = IF f.use_cache
                                   THEN Put(ai_cache, f.prompt, ProviderText(answer))
                                   ELSE ai_cache
               ELSE /\ retry_frame' =
                        [f EXCEPT !.model_calls = @ + 1, !.failed = @ + 1,
                                  !.fault = answer,
                                  !.pc = IF RetriesLeft(f.attempt, f.max_retries)
                                         THEN "sleep" ELSE "idle",
                                  !.outcome = IF RetriesLeft(f.attempt, f.max_retries)
                                              THEN "none" ELSE "raised"]
                    /\ UNCHANGED ai_cache
    /\ UNCHANGED <<g_op, g_call, g_stats, ai_stats, g_ops, retry_calls>>
    /\ UNCHANGED <<parserVars, parserHist, configVars, fieldVars, frameVars,
                   histVars, cleanVars, groupVars, engVars>>

\* time.sleep(retry_delay), then the next turn of the loop
RetrySleep ==
    /\ retry_frame.pc = "sleep"
    /\ retry_frame' = [retry_frame EXCEPT !.pc = "loop", !.sleeps = @ + 1,
                                          !.attempt = @ + 1]
    /\ UNCHANGED retry_calls
    /\ UNCHANGED <<parserVars, parserHist, configVars, fieldVars, frameVars,
                   histVars, genVars, cleanVars, groupVars, engVars>>

NextProvider == RetryCall \/ RetryAttempt \/ RetrySleep

SpecProvider == InitProvider /\ [][NextProvider]_vars


(***************************************************************************)
(* Properties of BrowserAutomator.run (checked under Spec)                 *)
(***************************************************************************)
\* run has been called and has been left
RunOver == pc = "idle" /\ runs > 0

\* parse returned in the current run, so this run has an action queue
QueueBuilt == i > 0

\* an execute call that returned (False, message)
FailedExecution(e) == e.made /\ e.raised = "none" /\ ~e.success

\* C1 as stated: with retry_attempts = 1 every processed instruction gets
\* exactly one generate call and exactly one execute call, no call is made
\* for any instruction after one was marked failed, and the run then
\* returns False.
C1_ExactlyOneGenerateAndExecute ==
    retry_attempts = 1 =>
        /\ gen_calls <= 1 /\ exec_calls <= 1
        /\ (pc = "resolved" => gen_calls = 1 /\ exec_calls = 1)
        /\ (last_gen.made => last_gen.failed_before = 0)
        /\ (last_exec.made => last_exec.failed_before = 0)
        /\ (RunOver /\ n_failed > 0 => retval = "False")

\* C1 amended: with retry_attempts = 1 every processed instruction gets
\* exactly one generate call and at most one execute call (exactly one unless
\* its generate call raised, then none); the first instruction that fails
\* stops the run: no generate or execute call is made after it, exactly one
\* instruction is marked failed, and run returns False.
C1_OneGenerateAtMostOneExecute ==
    retry_attempts = 1 =>
        /\ gen_calls <= 1 /\ exec_calls <= 1
        /\ (pc = "resolved" =>
               /\ gen_calls = 1
               /\ exec_calls = IF gen_faulted THEN 0 ELSE 1)
        /\ (last_gen.made => last_gen.failed_before = 0)
        /\ (last_exec.made => last_exec.failed_before = 0)
        /\ n_failed <= 1
        /\ (RunOver /\ n_failed > 0 => retval = "False")

\* a fail-fast run stopped by a failed execution with instructions left over
C1_Witness ==
    /\ retry_attempts = 1
    /\ RunOver /\ retval = "False"
    /\ n_failed = 1 /\ ~gen_faulted
    /\ FailedExecution(last_exec)
    /\ last_exec.pos < Len(action_queue)

\* C2 as stated: with retry_attempts = R > 1 no instruction is executed more
\* than R times, instructions are taken in queue order one at a time, and
\* when the run is over every instruction of the queue, the last one
\* included, has been attempted and resolved.
C2_BestEffortAttemptsAll ==
    retry_attempts > 1 =>
        /\ exec_calls <= retry_attempts
        /\ (QueueBuilt => n_ok + n_failed \in {i - 1, i})
        /\ (RunOver /\ QueueBuilt /\ action_queue # <<>> =>
               /\ last_gen.made /\ last_gen.pos = Len(action_queue)
               /\ n_ok + n_failed = Len(action_queue))

\* C3: once an execute call of an instruction has succeeded, no further
\* generate or execute call is made for that instruction, _execute_action
\* returns True with exactly the attempts used so far, and the loop moves to
\* the next queue position.
C3_SuccessEndsInstruction ==
    /\ (last_gen.made => ~last_gen.after_success)
    /\ (last_exec.made => ~last_exec.after_success)
    /\ (succeeded =>
           /\ last_exec.made /\ last_exec.success
           /\ gen_calls = last_exec.attempt + 1
           /\ exec_calls = last_exec.attempt + 1
           /\ IF pc = "resolved"
              THEN success /\ i = last_exec.pos
              ELSE i = last_exec.pos + 1 /\ n_ok > 0)

\* a first attempt succeeded with a retry left, and the loop has moved on
C3_Witness ==
    /\ retry_attempts > 1
    /\ succeeded /\ last_exec.attempt = 0
    /\ pc = "loop" /\ i <= Len(action_queue)

\* C4: run returns True exactly when this run built a queue and every
\* instruction of it returned True; from the moment an instruction is marked
\* failed the aggregate flag is False and run cannot return True.
C4_RunResultIsConjunction ==
    /\ (RunOver /\ retval \in {"True", "False"} =>
           (retval = "True" <=> (QueueBuilt /\ n_ok = Len(action_queue))))
    /\ (n_failed > 0 => ~all_success /\ retval # "True")

\* a best-effort run whose last instruction succeeded after an earlier one
\* had been marked failed
C4_Witness ==
    /\ retry_attempts > 1
    /\ RunOver /\ retval = "False"
    /\ n_failed > 0 /\ n_ok > 0
    /\ last_exec.made /\ last_exec.success
    /\ last_exec.pos = Len(action_queue)

\* the instruction lines of the run in progress
OwnInstructions ==
    LET lines == InputLines(instructions) IN
    {strip(lines[k]) : k \in 1..Len(lines)}

\* C5 as stated: a run generates and executes only instructions of its own
\* input.
C5_OnlyOwnInstructions ==
    /\ (last_gen.made => last_gen.instruction \in OwnInstructions)
    /\ (last_exec.made => action_queue[last_exec.pos] \in OwnInstructions)

\* C6: after generate raised for an instruction, the engine was not called
\* for that attempt, no further generate or execute call is made for the
\* instruction whatever the retry budget, the instruction is marked failed,
\* and run cannot return True.
C6_GenerationFaultAborts ==
    gen_faulted =>
        /\ last_gen.made
        /\ gen_calls = last_gen.attempt + 1
        /\ exec_calls = last_gen.attempt
        /\ (last_exec.made /\ last_exec.pos = last_gen.pos
               => last_exec.attempt < last_gen.attempt)
        /\ IF pc = "resolved"
           THEN ~success /\ i = last_gen.pos
           ELSE n_failed > 0 /\ ~all_success /\ retval # "True"
        /\ (RunOver /\ retval # "raised" => retval = "False")

\* generate raised on a first attempt although a retry was left, and the run
\* returned False
C6_Witness ==
    /\ retry_attempts > 1
    /\ gen_faulted /\ last_gen.attempt = 0
    /\ RunOver /\ retval = "False"

\* C7: every generate call passes no context; on the first attempt of an
\* instruction it passes no prior error, and on a later attempt it passes
\* the message returned by the execute call of the attempt just before it,
\* for the same instruction.
C7_PriorErrorIsPrecedingFailure ==
    last_gen.made =>
        /\ last_gen.context = NoneV
        /\ IF last_gen.attempt = 0
           THEN last_gen.error = NoneV
           ELSE /\ FailedExecution(last_gen.preceding)
                /\ last_gen.preceding.pos = last_gen.pos
                /\ last_gen.preceding.attempt = last_gen.attempt - 1
                /\ last_gen.error.some
                /\ last_gen.error = last_gen.preceding.error

\* the first generate call of an instruction that follows a failed one
C7_Witness ==
    /\ last_gen.made /\ last_gen.attempt = 0 /\ last_gen.pos > 1
    /\ last_gen.failed_before > 0
    /\ FailedExecution(last_gen.preceding)
    /\ last_gen.preceding.pos = last_gen.pos - 1

\* C8 as stated: run never leaves by a fault; whenever it is over it has
\* returned a boolean.
C8_RunNeverPropagates ==
    RunOver => retval \in {"True", "False"}

\* C9: when a run called with close_browser = True is over and a browser
\* existed in it, quit was called once, the outcome does not depend on
\* whether quit raised, and driver, env and engine are unset; the run after
\* a closed one gets past _initialize_browser only through create_browser.
C9_TeardownResets ==
    /\ (RunOver /\ close_browser /\ (created_in_run \/ quits > 0) =>
           /\ quits = 1
           /\ driver = 0 /\ env = 0 /\ engine.env = 0
           /\ (retval = "raised" <=> exc # "none"))
    /\ (prev_closed /\ pc \notin {"idle", "init", "except", "finally"} =>
           /\ created_in_run /\ create_calls = 1
           /\ driver = runs /\ env = driver /\ engine.env = env)

\* a run aborted by a fault, whose quit raised as well, left everything unset
C9_Witness ==
    /\ RunOver /\ close_browser /\ created_in_run
    /\ retval = "raised" /\ quit_swallowed
    /\ driver = 0 /\ engine.env = 0

(***************************************************************************)
(* Properties of InstructionParser.parse (checked under SpecParser)        *)
(***************************************************************************)
LineKind(raw) ==
    LET line == strip(raw) IN
    IF line = <<>> THEN "blank"
    ELSE IF Head(line) = COMMENT THEN "comment"
    ELSE IF Head(line) = FUNCTION_START THEN "define"
    ELSE IF Head(line) = FUNCTION_END THEN "end"
    ELSE IF Head(line) = CALL_FUNCTION THEN "call"
    ELSE "plain"

OfKind(lines, kind) == {k \in 1..Len(lines) : LineKind(lines[k]) = kind}

\* one closed definition, one call of it outside the definition, and nothing
\* but plain lines otherwise
OneMacroOneCall(lines) ==
    /\ Cardinality(OfKind(lines, "define")) = 1
    /\ Cardinality(OfKind(lines, "end")) = 1
    /\ Cardinality(OfKind(lines, "call")) = 1
    /\ OfKind(lines, "blank") = {} /\ OfKind(lines, "comment") = {}
    /\ LET d == CHOOSE k \in OfKind(lines, "define") : TRUE
           e == CHOOSE k \in OfKind(lines, "end") : TRUE
           c == CHOOSE k \in OfKind(lines, "call") : TRUE
       IN /\ d < e
          /\ c < d \/ c > e
          /\ Len(strip(lines[d])) = 3 /\ Len(strip(lines[c])) = 3
          /\ strip(lines[d])[3] = strip(lines[c])[3]

RECURSIVE ExpectedQueue(_, _, _, _)
\* the queue the claim describes: plain lines outside the definition in
\* place, the body at the call site
ExpectedQueue(lines, k, d, e) ==
    IF k > Len(lines) THEN <<>>
    ELSE (IF LineKind(lines[k]) = "call"
          THEN [j \in 1..(e - d - 1) |-> strip(lines[d + j])]
          ELSE IF LineKind(lines[k]) = "plain" /\ (k < d \/ k > e)
          THEN <<strip(lines[k])>>
          ELSE <<>>)
         \o ExpectedQueue(lines, k + 1, d, e)

\* C10 as stated: on a fresh parser an input with one closed definition of n
\* body lines, one call of it and m plain lines outside it gives a queue of
\* exactly n + m entries, the body entering only at the call site.
C10_MacroExpandsOnlyAtCall ==
    (p_op = "parse" /\ p_fresh /\ p_input.kind = "list"
        /\ OneMacroOneCall(p_input.val)) =>
       LET lines == p_input.val
           d == CHOOSE k \in OfKind(lines, "define") : TRUE
           e == CHOOSE k \in OfKind(lines, "end") : TRUE
           n == e - d - 1
           m == Len(lines) - 3 - n
       IN /\ Len(p_ret) = n + m
          /\ p_ret = ExpectedQueue(lines, 1, d, e)

\* the lines of an input as the caller wrote them
RawLines(inp) == IF inp.kind = "str" THEN split_nl(inp.val) ELSE inp.val

\* a line without the blanks around it
Core(raw) ==
    LET idx == {k \in 1..Len(raw) : raw[k] \notin WS} IN
    IF idx = {} THEN <<>>
    ELSE SubSeq(raw, CHOOSE k \in idx : \A j \in idx : k <= j,
                     CHOOSE k \in idx : \A j \in idx : k >= j)

\* the name a marker line ends with
NameOf(raw) == LET line == Core(raw) IN <<line[Len(line)]>>

\* line k lies outside every definition: each start marker before it has been
\* closed by an end marker before it
Outside(lines, k) ==
    \A d \in 1..(k - 1) :
        LineKind(lines[d]) = "define" =>
            \E e \in (d + 1)..(k - 1) : LineKind(lines[e]) = "end"

\* a start marker line that opens a definition
Opens(lines, d) == LineKind(lines[d]) = "define" /\ Outside(lines, d)

\* a definition that is closed by an end marker
Closed(lines, d) ==
    Opens(lines, d) /\ \E e \in (d + 1)..Len(lines) : LineKind(lines[e]) = "end"

\* the end marker that closes the definition opened at d
EndOf(lines, d) ==
    CHOOSE e \in (d + 1)..Len(lines) :
        /\ LineKind(lines[e]) = "end"
        /\ \A x \in (d + 1)..(e - 1) : LineKind(lines[x]) # "end"

IsContent(line) == line # <<>> /\ Head(line) # COMMENT

\* D.body: the lines between the markers, trimmed, blank and comment lines
\* left out
BodyOf(lines, d) ==
    SelectSeq([j \in 1..(EndOf(lines, d) - d - 1) |-> Core(lines[d + j])],
              IsContent)

\* the last parser call was a parse that returned
Parsed == p_op = "parse" /\ ~ParseFaults(p_input)

\* C11 as stated: after parse, every closed definition D of the input has
\* functions[D.name] = D.body.
C11_EveryDefinitionStored ==
    Parsed =>
        LET lines == RawLines(p_input) IN
        \A d \in 1..Len(lines) :
            Closed(lines, d) =>
                /\ NameOf(lines[d]) \in DOMAIN functions
                /\ functions[NameOf(lines[d])] = BodyOf(lines, d)

\* C11 amended: after parse, every closed definition D of the input that is
\* not followed by a later definition of the same name (closed or running to
\* the end of the input) has functions[D.name] = D.body: the body lines
\* trimmed, in input order, blank and comment lines left out.
C11_LastDefinitionStored ==
    Parsed =>
        LET lines == RawLines(p_input) IN
        \A d \in 1..Len(lines) :
            (/\ Closed(lines, d)
             /\ \A d2 \in (d + 1)..Len(lines) :
                   Opens(lines, d2) => NameOf(lines[d2]) # NameOf(lines[d]))
            => /\ NameOf(lines[d]) \in DOMAIN functions
               /\ functions[NameOf(lines[d])] = BodyOf(lines, d)

\* a closed definition whose block holds two different body lines and is
\* stored in that order
C11_Witness ==
    /\ Parsed
    /\ LET lines == RawLines(p_input) IN
       \E d \in 1..Len(lines) :
           /\ Closed(lines, d)
           /\ Len(BodyOf(lines, d)) = 2
           /\ BodyOf(lines, d)[1] # BodyOf(lines, d)[2]
           /\ functions[NameOf(lines[d])] = BodyOf(lines, d)

\* a list without its k-th element
Remove(lines, k) == SubSeq(lines, 1, k - 1) \o SubSeq(lines, k + 1, Len(lines))

RECURSIVE IsSubseq(_, _)
\* the entries of a occur in b in the same order
IsSubseq(a, b) ==
    IF a = <<>> THEN TRUE
    ELSE IF b = <<>> THEN FALSE
    ELSE IF Head(a) = Head(b) THEN IsSubseq(Tail(a), Tail(b))
    ELSE IsSubseq(a, Tail(b))

IsPlain(line) ==
    IsContent(line)
    /\ Head(line) \notin {FUNCTION_START, FUNCTION_END, CALL_FUNCTION}

\* the regular instructions of an input, trimmed, in input order
PlainLines(lines) ==
    SelectSeq([k \in 1..Len(lines) |-> Core(lines[k])], IsPlain)

\* line k is a call, outside every definition, of a name the macro table
\* does not hold
UndefinedCall(lines, k) ==
    /\ LineKind(lines[k]) = "call"
    /\ Outside(lines, k)
    /\ NameOf(lines[k]) \notin DOMAIN functions

\* C12: on a fresh parser, a call of an undefined name leaves the queue as
\* if the line were not there, parse returns, and the regular instructions
\* of the input are all in the returned queue in their input order.
C12_UndefinedCallSkipped ==
    (Parsed /\ p_fresh) =>
        LET lines == RawLines(p_input) IN
        \A k \in 1..Len(lines) :
            UndefinedCall(lines, k) =>
                /\ p_ret = parse(ListInput(Remove(lines, k)),
                                 EmptyDict, <<>>).action_queue
                /\ IsSubseq(PlainLines(lines), p_ret)

\* an undefined call between two regular instructions, both returned
C12_Witness ==
    /\ Parsed /\ p_fresh
    /\ LET lines == RawLines(p_input) IN
       \E k \in 2..(Len(lines) - 1) :
           /\ UndefinedCall(lines, k)
           /\ IsPlain(Core(lines[k - 1])) /\ IsPlain(Core(lines[k + 1]))
           /\ Len(p_ret) = 2

\* no line of the input begins with one of the three macro markers
NoMarkers(lines) ==
    \A k \in 1..Len(lines) :
        Core(lines[k]) # <<>> =>
            Head(Core(lines[k])) \notin {FUNCTION_START, FUNCTION_END, CALL_FUNCTION}

\* C13: on a fresh parser an input without macro markers, as text or as a
\* list, returns exactly its non-blank, non-comment lines, each trimmed, in
\* input order.
C13_PlainInputKept ==
    (Parsed /\ p_fresh /\ NoMarkers(RawLines(p_input))) =>
        p_ret = PlainLines(RawLines(p_input))

\* a text block with a blank line, a comment line and a padded instruction
C13_Witness ==
    /\ Parsed /\ p_fresh /\ p_input.kind = "str"
    /\ LET lines == RawLines(p_input) IN
       /\ NoMarkers(lines)
       /\ \E k \in 1..Len(lines) : Core(lines[k]) = <<>>
       /\ \E k \in 1..Len(lines) :
              Core(lines[k]) # <<>> /\ Head(Core(lines[k])) = COMMENT
       /\ \E k \in 1..Len(lines) :
              IsPlain(Core(lines[k])) /\ Core(lines[k]) # lines[k]
    /\ Len(p_ret) = 2

\* C14 as stated: no instruction of a returned queue contains the comment
\* marker.
C14_NoCommentMarker ==
    Parsed =>
        \A k \in 1..Len(p_ret) :
            \A j \in 1..Len(p_ret[k]) : p_ret[k][j] # COMMENT

(***************************************************************************)
(* Properties of CodeGenerator.generate (checked under SpecGenerator)      *)
(***************************************************************************)
\* a hit is decided before the provider is involved, and leaves it alone
HitSkipsProvider ==
    g_call.made =>
        /\ g_call.hit <=> (cache_enabled /\ g_call.key \in DOMAIN g_call.before)
        /\ g_call.hit => ~g_call.contacted /\ ~g_call.model
        /\ ~g_call.hit => g_call.contacted

\* C15 as stated: between two clear_cache calls, generate called twice or
\* more with one tuple invokes the provider at most once when caching is
\* enabled, and once per call when it is disabled; a hit is found before the
\* provider is invoked and does not invoke it.
C15_TwiceInvokesOnce ==
    /\ \A t \in DOMAIN g_stats :
          g_stats[t].calls >= 2 =>
              IF cache_enabled THEN g_stats[t].provider <= 1
              ELSE g_stats[t].provider = g_stats[t].calls
    /\ HitSkipsProvider

\* C15 amended: with caching enabled the provider is invoked for a tuple at
\* most once beyond the calls that raised (a call that raised cached
\* nothing, so the next call invokes the provider again; after a call that
\* returned, no later call does); with caching disabled every call invokes
\* the provider, so two calls invoke it exactly twice; a hit is found before
\* the provider is invoked and does not invoke it.
C15_InvokesOnceAfterSuccess ==
    /\ \A t \in DOMAIN g_stats :
          IF cache_enabled
          THEN g_stats[t].provider <= g_stats[t].failed + 1
          ELSE g_stats[t].provider = g_stats[t].calls
    /\ HitSkipsProvider

\* the second call with a tuple was answered from the cache
C15_Witness ==
    /\ cache_enabled /\ g_op = "generate"
    /\ g_call.hit /\ ~g_call.first
    /\ g_stats[g_call.t].calls = 2
    /\ g_stats[g_call.t].provider = 1 /\ g_stats[g_call.t].failed = 0

\* C16: with caching enabled, no step but clear_cache removes or changes a
\* stored entry; a generate call whose key is stored returns the stored
\* snippet without invoking the provider; clear_cache empties the cache; and
\* a generate call made on an empty cache invokes the provider.
C16_StoredSnippetKept ==
    [][cache_enabled =>
          /\ (g_op' # "clear_cache" =>
                 \A k \in DOMAIN code_cache :
                     k \in DOMAIN code_cache' /\ code_cache'[k] = code_cache[k])
          /\ (g_op' = "generate" /\ g_call'.key \in DOMAIN code_cache =>
                 /\ ~g_call'.raised /\ ~g_call'.contacted
                 /\ g_call'.result = code_cache[g_call'.key])
          /\ (g_op' = "clear_cache" => code_cache' = EmptyDict)
          /\ (g_op' = "generate" /\ code_cache = EmptyDict =>
                 g_call'.contacted)
      ]_vars

\* a stored snippet was returned again after the provider had forgotten
\* its own responses
C16_Witness ==
    /\ cache_enabled /\ g_op = "generate"
    /\ g_call.hit /\ ai_cache = EmptyDict
    /\ g_call.result = code_cache[g_call.key]

\* C17 as stated: with caching enabled, a generate call whose instruction
\* and context were used before but whose prior-error text is new invokes
\* the provider with a prompt holding that text, and when it returns its
\* snippet is stored under a key of its own, the entries stored before being
\* left as they were.
C17_NewErrorTextMisses ==
    (/\ cache_enabled /\ g_op = "generate"
     /\ g_call.t.error.some /\ g_call.first /\ g_call.siblings # {}) =>
        /\ ~g_call.hit /\ g_call.contacted
        /\ Contains(g_call.prompt, g_call.t.error.s)
        /\ (~g_call.raised =>
               /\ g_call.key \notin DOMAIN g_call.before
               /\ g_call.key \in DOMAIN code_cache
               /\ code_cache[g_call.key] = g_call.result
               /\ \A k \in DOMAIN g_call.before :
                      code_cache[k] = g_call.before[k])

(***************************************************************************)
(* Properties of CodeGenerator._clean_code (checked under SpecClean)       *)
(***************************************************************************)
\* a response made of one definition and nothing else: a def or class line
\* at the left margin, followed by indented or blank lines only
DefinitionOnly(raw) ==
    LET lines == split_nl(raw) IN
    /\ lines[1] # <<>> /\ lines[1][1] \in {"def", "class"}
    /\ \A k \in 2..Len(lines) : lines[k] = <<>> \/ lines[k][1] = " "

\* the name the definition line gives
DefinedName(raw) == split_nl(raw)[1][3]

\* the lines of a snippet, at the left margin, that invoke the callable
CallSites(snippet, name) ==
    LET lines == split_nl(snippet) IN
    {k \in 1..Len(lines) :
        /\ lines[k] # <<>>
        /\ \/ lines[k] = <<"main(env)">> /\ name = "main"
           \/ lines[k] = <<"automation()">> /\ name = "automation"
           \/ Contains(lines[k], <<name, "(env)">>) /\ lines[k][1] # "def"}

\* C18 as stated: a response that holds only a definition comes out of
\* post-processing with exactly one invocation of the defined callable.
C18_DefinitionIsInvoked ==
    (c_done /\ DefinitionOnly(c_raw)) =>
        Cardinality(CallSites(c_out, DefinedName(c_raw))) = 1

(***************************************************************************)
(* Properties of ActionEngine.execute (checked under SpecEngine)           *)
(***************************************************************************)
\* C19 as stated: every execute call returns; none leaves by a fault.
C19_ExecuteNeverRaises ==
    e_out.made => e_out.raised = "none"

\* C20: every pair execute returns is (True, None) for a snippet that ran
\* through, or (False, message) for a snippet that faulted, the message
\* being a non-empty text that holds the fault's kind name and the fault's
\* own message.
C20_ResultShape ==
    (e_out.made /\ e_out.raised = "none") =>
        IF e_out.success
        THEN e_out.error = NoneV /\ e_in.does.raises = "none"
        ELSE /\ e_in.does.raises # "none"
             /\ e_out.error.some /\ e_out.error.s # <<>>
             /\ Contains(e_out.error.s, <<e_in.does.type>>)
             /\ Contains(e_out.error.s, e_in.does.msg)

\* a snippet raised ValueError('boom') and execute returned the failure
C20_Witness ==
    /\ e_out.made /\ e_out.raised = "none" /\ ~e_out.success
    /\ e_in.does.type = "ValueError"
    /\ Contains(e_out.error.s, <<"ValueError">>)
    /\ Contains(e_out.error.s, <<"boom">>)

\* C21: for one ActionEngine, execution_count equals the number of execute
\* calls made so far, whatever the calls did: it starts at 0 and every call,
\* returning or not, adds exactly 1.
C21_CountEqualsCalls ==
    engine.execution_count = e_calls

\* three calls were made, an earlier one failed and the latest succeeded
C21_Witness ==
    /\ e_calls = 3 /\ engine.execution_count = 3
    /\ e_out.made /\ e_out.success
    /\ e_shots # {}

\* an execute call that returned (False, message)
ReturnedFailure == e_out.made /\ e_out.raised = "none" /\ ~e_out.success

\* C22 as stated: with screenshot_on_error set, a failing execution makes
\* exactly one capture call on the environment; with it unset, none; a
\* successful execution makes none in both settings.
C22_OneCapturePerFailure ==
    (e_out.made /\ e_out.raised = "none") =>
        e_out.captures = IF ~e_out.success /\ screenshot_on_error THEN 1 ELSE 0

\* C22 amended: with screenshot_on_error set, an execute call that returns
\* a failure has made exactly one capture call on the environment unless
\* creating the screenshot directory raised, and then none; with it unset a
\* failing call makes none; a successful call makes none in both settings.
C22_OneCaptureUnlessNoDirectory ==
    (e_out.made /\ e_out.raised = "none") =>
        e_out.captures =
            IF ~e_out.success /\ screenshot_on_error /\ e_in.dir_ok
            THEN 1 ELSE 0

\* a failing call on an engine with the setting on made its one capture call
C22_Witness ==
    /\ screenshot_on_error /\ ReturnedFailure
    /\ e_in.dir_ok /\ e_out.captures = 1
    /\ engine.execution_count \in e_shots

\* C23: when creating the directory or the capture call raises, execute
\* still returns (False, message), the message being the one the snippet's
\* own fault gives.
C23_CaptureFaultDropped ==
    (e_out.made /\ e_out.shot_fault) =>
        /\ e_out.raised = "none" /\ ~e_out.success
        /\ e_out.error = Some(_format_error(e_in.does))
        /\ Contains(e_out.error.s, e_in.does.msg)

\* the capture call itself raised after ValueError('boom') in the snippet
C23_Witness ==
    /\ ReturnedFailure /\ e_out.shot_fault
    /\ e_in.dir_ok /\ ~e_in.shot_ok /\ e_out.captures = 1
    /\ e_in.does.type = "ValueError"
    /\ Contains(e_out.error.s, <<"boom">>)
    /\ engine.execution_count \notin e_shots

\* C25 as stated: a snippet can read env, driver, Keys and the extra
\* bindings of the call, and no other name: reading any other name (one the
\* snippet has not bound in its own scope) fails.
C25_OnlyScopeNames ==
    (e_in.made /\ engine.env # 0 /\ e_in.binds # "scope"
        /\ e_in.reads \notin {"env", "driver", "Keys"} \cup e_in.context) =>
       e_in.does.type = "NameError"

\* C39 as stated: a name that only an earlier snippet has bound (leak), or
\* that only an earlier call was given as an extra binding (extra), is not
\* visible to the snippet of the current call: reading it fails.
C39_FreshScopePerCall ==
    (/\ e_in.made /\ engine.env # 0
     /\ e_in.binds = "none"
     /\ e_in.reads \in {"leak", "extra"}
     /\ e_in.reads \notin e_in.context) =>
        e_in.does.type = "NameError"

(***************************************************************************)
(* Further properties of BrowserAutomator.run (checked under Spec)         *)
(***************************************************************************)
\* C24: a call of _initialize_browser that finds the browser in place makes
\* no create_browser call and leaves driver, env and engine as they are; so
\* a run that starts with the browser of an earlier run makes no
\* create_browser call at all and works with that run's environment and
\* engine.
C24_InitializeOnce ==
    [][/\ (pc = "init" /\ driver # 0 =>
              /\ create_calls' = create_calls
              /\ driver' = driver /\ env' = env /\ engine' = engine)
       /\ (driver' # 0 /\ driver' < runs' =>
              /\ create_calls' = 0
              /\ env' = driver' /\ engine'.env = driver')
      ]_vars

\* the second run is past _initialize_browser with the browser, and the
\* engine's count, of the first
C24_Witness ==
    /\ runs = 2 /\ pc = "parse"
    /\ driver = 1 /\ env = 1 /\ engine.env = 1
    /\ engine.execution_count > 0
    /\ create_calls = 0

\* C26: the delay is slept once after each processed instruction that is
\* followed by another one, and nowhere else: not after the final
\* instruction of the queue, and not after the instruction whose failure
\* stops a fail-fast run.
C26_DelayBetweenOnly ==
    [][/\ \A k \in delays' : k < i' /\ k < Len(action_queue')
       /\ \A k \in 1..(i' - 1) : k < Len(action_queue') => k \in delays'
       /\ (delays' # delays /\ delays' # {} =>
              /\ i \notin delays /\ delays' = delays \cup {i}
              /\ ~(~success /\ retry_attempts <= 1))
       /\ (pc = "resolved" /\ pc' = "return" => delays' = delays)
      ]_vars

\* a best-effort run over two instructions is over: the first one failed,
\* the delay was slept after it and not after the second
C26_Witness ==
    /\ RunOver /\ retry_attempts > 1
    /\ Len(action_queue) = 2 /\ i = 3
    /\ n_failed > 0
    /\ delays = {1}

(***************************************************************************)
(* Further properties of InstructionParser.parse (checked under SpecParser)*)
(***************************************************************************)
\* a definition of the name of line k was closed before line k
ClosedBefore(lines, k) ==
    \E d \in 1..(k - 1) :
        /\ Closed(lines, d) /\ EndOf(lines, d) < k
        /\ NameOf(lines[d]) = NameOf(lines[k])

\* C28 as stated: on a fresh parser a call, outside every definition, of a
\* name no definition closed before it gives adds nothing to the queue, a
\* definition later in the input notwithstanding.
C28_ForwardReferenceUnresolved ==
    (Parsed /\ p_fresh) =>
        LET lines == RawLines(p_input) IN
        \A k \in 1..Len(lines) :
            (/\ LineKind(lines[k]) = "call" /\ Outside(lines, k)
             /\ ~ClosedBefore(lines, k)) =>
                p_ret = parse(ListInput(Remove(lines, k)),
                              EmptyDict, <<>>).action_queue

\* the definition of a name that no later definition of the name follows
IsLastDefinition(lines, d) ==
    /\ Opens(lines, d)
    /\ \A d2 \in (d + 1)..Len(lines) :
           Opens(lines, d2) => NameOf(lines[d2]) # NameOf(lines[d])

\* C30: on a fresh parser, a call of a macro whose last definition in the
\* input is closed puts into the queue, at the place of the call line, the
\* body lines of that definition in their order and as they were recorded;
\* a call line among them is queued as it stands.
C30_BodyAppendedVerbatim ==
    (Parsed /\ p_fresh) =>
        LET lines == RawLines(p_input) IN
        \A k \in 1..Len(lines), d \in 1..Len(lines) :
            (/\ LineKind(lines[k]) = "call"
             /\ Closed(lines, d) /\ IsLastDefinition(lines, d)
             /\ NameOf(lines[d]) = NameOf(lines[k])) =>
                p_ret =
                    _build_action_queue(SubSeq(lines, 1, k - 1), functions, <<>>)
                    \o BodyOf(lines, d)
                    \o _build_action_queue(SubSeq(lines, k + 1, Len(lines)),
                                           functions, <<>>)

\* a macro whose body is a call line was called after its definition, and
\* the queue ends with that call line
C30_Witness ==
    /\ Parsed /\ p_fresh
    /\ LET lines == RawLines(p_input) IN
       \E k \in 1..Len(lines), d \in 1..Len(lines) :
           /\ LineKind(lines[k]) = "call" /\ Outside(lines, k)
           /\ Closed(lines, d) /\ IsLastDefinition(lines, d)
           /\ EndOf(lines, d) < k
           /\ NameOf(lines[d]) = NameOf(lines[k])
           /\ BodyOf(lines, d) # <<>>
           /\ Head(BodyOf(lines, d)[1]) = CALL_FUNCTION
           /\ p_ret # <<>>
           /\ p_ret[Len(p_ret)] = BodyOf(lines, d)[1]

\* the body the first pass records for the definition opened at d: the lines
\* up to its end marker or, without one, up to the end of the input, trimmed,
\* blank and comment lines left out
RecordedBody(lines, d) ==
    LET last == IF Closed(lines, d) THEN EndOf(lines, d) - 1 ELSE Len(lines) IN
    SelectSeq([j \in 1..(last - d) |-> Core(lines[d + j])], IsContent)

C32_UnclosedRunsToEnd ==
    (p_op = "parse" /\ p_fresh /\ p_input.kind # "none") =>
        LET lines == RawLines(p_input) IN
        \A d \in 1..Len(lines) :
            (Opens(lines, d) /\ ~Closed(lines, d)) =>
                /\ Parsed
                /\ NameOf(lines[d]) \in DOMAIN functions
                /\ functions[NameOf(lines[d])] =
                       SelectSeq([j \in 1..(Len(lines) - d) |->
                                     Core(lines[d + j])], IsContent)
                /\ DOMAIN functions =
                       {NameOf(lines[x]) : x \in {y \in 1..d : Opens(lines, y)}}

\* an unclosed definition of f whose body holds a start marker of g: g is
\* not in the macro table
C32_Witness ==
    /\ Parsed /\ p_fresh
    /\ LET lines == RawLines(p_input) IN
       \E d \in 1..Len(lines), d2 \in 1..Len(lines) :
           /\ Opens(lines, d) /\ ~Closed(lines, d) /\ d < d2
           /\ LineKind(lines[d2]) = "define"
           /\ NameOf(lines[d2]) # NameOf(lines[d])
           /\ NameOf(lines[d2]) \notin DOMAIN functions
           /\ Len(functions[NameOf(lines[d])]) >= 2

\* C34: clear() leaves the macro table and the queue empty; a parse that
\* follows clear() returns what the same input gives on a fresh parser;
\* a parse that follows a parse keeps every macro the new input does not
\* define again, and a call line of such a macro in the new input puts its
\* body into the queue at its place.
C34_ClearResets ==
    [][ /\ p_op' = "clear" =>
             functions' = EmptyDict /\ action_queue' = <<>>
        /\ (p_op = "clear" /\ p_op' = "parse" /\ ~ParseFaults(p_input')) =>
             /\ p_ret' = parse(p_input', EmptyDict, <<>>).action_queue
             /\ functions' = parse(p_input', EmptyDict, <<>>).functions
        /\ (p_op = "parse" /\ p_op' = "parse" /\ ~ParseFaults(p_input')) =>
             LET lines == RawLines(p_input')
                 again == {NameOf(lines[d]) :
                               d \in {x \in 1..Len(lines) : Opens(lines, x)}}
                 kept  == DOMAIN functions \ again
             IN /\ \A name \in kept :
                       /\ name \in DOMAIN functions'
                       /\ functions'[name] = functions[name]
                /\ \A k \in 1..Len(lines) :
                       (LineKind(lines[k]) = "call" /\ NameOf(lines[k]) \in kept)
                       => p_ret' =
                              _build_action_queue(SubSeq(lines, 1, k - 1),
                                                  functions', action_queue)
                              \o functions[NameOf(lines[k])]
                              \o _build_action_queue(
                                     SubSeq(lines, k + 1, Len(lines)),
                                     functions', <<>>)
      ]_vars

\* a second parse whose input is one call line of a macro that an earlier
\* parse defined with a body: the queue ends with that body
C34_Witness ==
    /\ Parsed /\ ~p_fresh
    /\ LET lines == RawLines(p_input) IN
       /\ Len(lines) = 1 /\ LineKind(lines[1]) = "call"
       /\ NameOf(lines[1]) \in DOMAIN functions
       /\ functions[NameOf(lines[1])] # <<>>
       /\ Len(p_ret) >= Len(functions[NameOf(lines[1])])
       /\ SubSeq(p_ret, Len(p_ret) - Len(functions[NameOf(lines[1])]) + 1,
                 Len(p_ret)) = functions[NameOf(lines[1])]

\* a parse that followed clear() on a parser that had defined a macro: the
\* call of that macro is not expanded and the queue holds the new input only
C34_WitnessCleared ==
    /\ Parsed /\ ~p_fresh /\ p_calls = 3
    /\ functions = EmptyDict
    /\ p_input = ListInput(<<<<"a">>>>)
    /\ p_ret = <<<<"a">>>>

(***************************************************************************)
(* Further properties of BrowserAutomator.run (checked under Spec)         *)
(***************************************************************************)
\* C35: with retry_attempts <= 0 no generate call and no execute call is
\* ever made; the first instruction of a non-empty queue is marked failed
\* and is the only one the run reaches; a run over a non-empty queue
\* returns False and a run over an empty queue returns True.
C35_NoAttemptsNoCalls ==
    retry_attempts <= 0 =>
        /\ gen_calls = 0 /\ exec_calls = 0
        /\ ~last_gen.made /\ ~last_exec.made
        /\ engine.execution_count = 0 /\ code_cache = EmptyDict
        /\ pc \notin {"generate", "execute"}
        /\ i <= 1 /\ n_ok = 0 /\ n_failed <= 1
        /\ (RunOver /\ QueueBuilt) =>
               /\ n_failed = (IF action_queue = <<>> THEN 0 ELSE 1)
               /\ retval = (IF action_queue = <<>> THEN "True" ELSE "False")

\* a run with retry_attempts = 0 over a queue of two instructions returned
\* False after marking one instruction failed
C35_Witness ==
    /\ retry_attempts = 0 /\ RunOver /\ QueueBuilt
    /\ Len(action_queue) = 2
    /\ i = 1 /\ n_failed = 1 /\ retval = "False"
    /\ gen_calls = 0 /\ exec_calls = 0

\* a run with a negative retry_attempts over an empty queue returned True
C35_WitnessEmpty ==
    /\ retry_attempts < 0 /\ RunOver /\ QueueBuilt
    /\ action_queue = <<>> /\ retval = "True"

(***************************************************************************)
(* Properties of the retry loop with the snippet cache (under SpecLoop)    *)
(***************************************************************************)
\* C36: with caching enabled, a generate call of a retry loop whose prior
\* error equals the prior error of the loop's generate call before it (the
\* two executions in between failed with the same message) hits the cache:
\* the provider is not contacted and the snippet that just failed is the
\* one executed next; and in every retry loop the provider is contacted at
\* most once per distinct prior-error value.
C36_SameErrorHitsCache ==
    [][ cache_enabled =>
          /\ (/\ last_gen.made /\ last_gen'.made
               /\ last_gen'.pos = last_gen.pos
               /\ last_gen'.attempt = last_gen.attempt + 1
               /\ last_gen'.error = last_gen.error) =>
                  /\ last_gen'.seen.hit
                  /\ last_gen'.seen.contacts = last_gen.seen.contacts
                  /\ code' = code
                  /\ pc' = "execute"
          /\ last_gen'.made =>
                 last_gen'.seen.contacts <= Cardinality(last_gen'.seen.errors)
      ]_vars

\* the third generate call of a retry loop hit the cache after two failures
\* with the same message: three calls, two provider contacts
C36_Witness ==
    /\ cache_enabled /\ pc = "execute"
    /\ last_gen.made /\ last_gen.attempt = 2 /\ gen_calls = 3
    /\ last_gen.error # NoneV
    /\ last_gen.seen.errors = {NoneV, last_gen.error}
    /\ last_gen.seen.hit /\ last_gen.seen.contacts = 2
    /\ code = code_cache[cache_key(last_gen.instruction, NoneV, last_gen.error)]

(***************************************************************************)
(* Properties of group_related_actions (checked under SpecGroup)           *)
(***************************************************************************)
\* the instruction holds a line break
HoldsBreak(action) == \E x \in 1..Len(action) : action[x] = NL

RECURSIVE SplitBack(_)
\* the blocks split on their line breaks, one after the other
SplitBack(blocks) ==
    IF blocks = <<>> THEN <<>>
    ELSE split_nl(Head(blocks)) \o SplitBack(Tail(blocks))

\* the instruction holds a cue word, whatever the case of its letters
HasCue(action) ==
    \E w \in {<<"then">>, <<"and">>, <<"after", " ", "that">>, <<"next">>} :
        Contains(lower(action), w)

\* the instructions that start a block: the first one and every one without
\* a cue word
Starts(actions) ==
    {k \in 1..Len(actions) : k = 1 \/ ~HasCue(actions[k])}

\* the last instruction of the block that starts at k
RunEnd(actions, k) ==
    CHOOSE m \in k..Len(actions) :
        /\ \A x \in (k + 1)..m : x \notin Starts(actions)
        /\ m = Len(actions) \/ (m + 1) \in Starts(actions)

\* the blocks are cut where the claim says: one block per starting
\* instruction, holding it and the cue-word instructions that follow it
CutAtStarts ==
    /\ Len(gr_out) = Cardinality(Starts(gr_in))
    /\ \A k \in Starts(gr_in) :
           gr_out[Cardinality({x \in Starts(gr_in) : x <= k})] =
               Join(SubSeq(gr_in, k, RunEnd(gr_in, k)))

\* neither the list passed nor the parser's queue was changed
InputsUntouched ==
    /\ gr_list = gr_in
    /\ action_queue = IF gr_shared THEN gr_in ELSE <<>>

\* C33 as stated: the blocks, split back on line breaks and concatenated,
\* equal the input sequence, for every input; the blocks are cut at the
\* instructions without a cue word; an input without cue words gives one
\* block per instruction; the input list and the queue are left as they
\* were.
C33_BlocksPartitionInput ==
    gr_done =>
        /\ SplitBack(gr_out) = gr_in
        /\ CutAtStarts
        /\ (\A k \in 1..Len(gr_in) : ~HasCue(gr_in[k])) => gr_out = gr_in
        /\ InputsUntouched

\* C33 amended: as C33, the first part for inputs none of whose
\* instructions holds a line break.
C33_BlocksPartitionSingleLines ==
    gr_done =>
        /\ (\A k \in 1..Len(gr_in) : ~HoldsBreak(gr_in[k])) =>
               SplitBack(gr_out) = gr_in
        /\ CutAtStarts
        /\ (\A k \in 1..Len(gr_in) : ~HasCue(gr_in[k])) => gr_out = gr_in
        /\ InputsUntouched

\* the parser's own queue of three one-line instructions was grouped into
\* one block of two, joined because of a capitalised cue word, and one of one
C33_Witness ==
    /\ gr_done /\ gr_shared
    /\ Len(gr_in) = 3 /\ Len(gr_out) = 2
    /\ \A k \in 1..3 : ~HoldsBreak(gr_in[k])
    /\ gr_in[2] = <<"Then", " ", "b">>
    /\ gr_out[1] = gr_in[1] \o <<NL>> \o gr_in[2]
    /\ gr_out[2] = gr_in[3]
    /\ SplitBack(gr_out) = gr_in

(***************************************************************************)
(* Properties of generate_with_retry (checked under SpecProvider)          *)
(***************************************************************************)
\* C27: generate_with_retry calls the model at most max_retries times; a
\* response ends the call at once; every failed attempt but the last is
\* followed by one pause; when max_retries >= 1 attempts have all failed
\* the model was called exactly max_retries times and the call leaves by the
\* fault of the last attempt; failed attempts leave the response cache as
\* it was.
C27_BoundedRetry ==
    retry_frame.made =>
        LET f == retry_frame IN
        /\ f.model_calls <= f.max_retries
        /\ f.model_calls =
              f.failed + (IF f.outcome = "returned" /\ ~f.from_cache
                          THEN 1 ELSE 0)
        /\ (f.outcome = "returned" => f.pc = "idle")
        /\ f.sleeps = IF f.pc = "sleep" \/ f.outcome = "raised"
                      THEN f.failed - 1 ELSE f.failed
        /\ (f.pc = "idle" /\ f.failed > 0 /\ f.failed = f.max_retries =>
               /\ f.outcome = "raised"
               /\ f.model_calls = f.max_retries
               /\ f.fault \in ModelFaults)
        /\ (f.outcome = "raised" => f.failed = f.max_retries)
        /\ (f.outcome # "returned" => ai_cache = f.before)

\* three attempts failed, two pauses were made, and the call left by a fault
C27_Witness ==
    /\ retry_frame.made /\ retry_frame.outcome = "raised"
    /\ retry_frame.max_retries = 3 /\ retry_frame.model_calls = 3
    /\ retry_frame.sleeps = 2
    /\ retry_calls = 2 /\ ai_cache # EmptyDict /\ ai_cache = retry_frame.before

(***************************************************************************)
(* Further properties of CodeGenerator.generate (under SpecGenerator)      *)
(***************************************************************************)
\* C29 as stated: with caching enabled a generate call answered from the
\* cache returns a snippet that was generated for its own tuple, never one
\* generated for a tuple that differs in a component.
C29_NoSharedEntry ==
    (g_op = "generate" /\ g_call.hit) =>
        g_stats[g_call.t].provider > g_stats[g_call.t].failed

\* C38 as stated: the generator's cache never answers when it is disabled;
\* a generate call its cache does not answer (disabled, cleared or without
\* the key) calls generate_with_retry; and when the provider was called for
\* the same tuple before, since the provider's last clear_cache, the model
\* is not contacted.
C38_SecondCallSkipsModel ==
    g_op = "generate" =>
        /\ ~cache_enabled => ~g_call.hit
        /\ ~g_call.hit =>
               /\ g_call.contacted
               /\ g_call.was.asked >= 1 => ~g_call.model

\* C38 amended: as C38, for a tuple the provider has answered since its
\* last clear_cache: the call returns the post-processed stored response and
\* the model is not contacted; calls that raised stored nothing. With the
\* provider's cache empty (never filled, or cleared by its own clear_cache)
\* the model is contacted.
C38_AnsweredCallSkipsModel ==
    g_op = "generate" =>
        /\ ~cache_enabled => ~g_call.hit
        /\ ~g_call.hit =>
               /\ g_call.contacted
               /\ g_call.was.answered >= 1 =>
                      /\ ~g_call.model /\ ~g_call.raised
                      /\ g_call.result =
                             _clean_code(g_call.ai_before[g_call.prompt])
               /\ g_call.ai_before = EmptyDict => g_call.model

\* with the generator's cache disabled, the second call with a tuple reached
\* the provider and was answered without the model
C38_Witness ==
    /\ ~cache_enabled /\ g_op = "generate"
    /\ ~g_call.hit /\ g_call.contacted /\ ~g_call.model
    /\ g_call.was.answered = 1
    /\ g_stats[g_call.t].calls = 2

\* the same after CodeGenerator.clear_cache emptied the generator's cache
C38_WitnessCleared ==
    /\ cache_enabled /\ g_op = "generate" /\ g_ops = 3
    /\ ~g_call.hit /\ g_call.contacted /\ ~g_call.model
    /\ g_call.was.answered = 1 /\ g_call.before = EmptyDict

\* C37 as stated: a generate call that raised left the snippet cache as it
\* was and returned nothing; and a generate call with a tuple whose earlier
\* calls (since the last clear_cache) all raised contacts the provider
\* again.
C37_FailureNotCached ==
    g_op = "generate" =>
        /\ g_call.raised =>
               /\ code_cache = g_call.before
               /\ g_call.result = <<>>
        /\ LET st      == g_stats[g_call.t]
               earlier == st.calls - 1
               failed  == st.failed - (IF g_call.raised THEN 1 ELSE 0)
           IN (earlier >= 1 /\ failed = earlier) =>
                  ~g_call.hit /\ g_call.contacted

====
